---- MODULE Spec2Model ----
(***************************************************************************)
(* Model of the Fanatec pedals monitor (src/main.c): the polling loop of   *)
(* main(), its clutch-noise detector, gas activity tracker, gas drift      *)
(* detector, deadzone-out estimator with auto-adjust, the reconnect loop   *)
(* and the telemetry publication.                                          *)
(*                                                                         *)
(* The variable st is the PedalMonState struct of main(); shared is the    *)
(* struct copy in the telemetry shared memory; clock is the value          *)
(* GetTickCount() returns; pc is the position of the single thread.        *)
(***************************************************************************)
EXTENDS Integers, Sequences, FiniteSets, TLC

\* events is the sequence of calls to the device, the notifier and the
\* telemetry channel made by the last step, in order; obs records what an
\* observer of the notifier has seen: the time of the last drift alert (-1 if
\* none), the number of drift alerts (counted up to 2) and the number of
\* samples read from the current attachment (counted up to the repeat count)
\* and the number of joyGetPosEx calls made by the main loop, and the
\* largest sample of the current drift window (windowMax) and the largest
\* percentage of the current estimation window (estimateMax).
\*
\* view is the mapped view of the telemetry shared memory as a concurrent
\* consumer sees it while the struct copy of Telemetry_Publish is under way;
\* inst and mutex are the startup positions of the concurrently started
\* monitor processes and the handles open on the single-instance mutex;
\* probe holds the arguments and results of a function applied on its own.
\* Each of the four is used by the specification that is about it and is
\* left alone by the others.
VARIABLES st, shared, clock, pc, events, obs, view, inst, mutex, probe

vars == <<st, shared, clock, pc, events, obs, view, inst, mutex, probe>>

\* The variables outside the main loop of the process modelled by st.
envVars == <<view, inst, mutex, probe>>

(***************************************************************************)
(* Bounds of the model.                                                    *)
(***************************************************************************)
\* Iteration limit given on the command line (--iterations) in the runs checked.
MaxIterations == 7
\* Uptime (seconds of the tick counter) after which no further step is taken.
MaxUptimeSec == 128

(***************************************************************************)
(* Program constants.                                                      *)
(***************************************************************************)
JOY_RETURNRAWDATA == 256
JOY_RETURNALL == 255
AxisMaxRaw == 1023
AxisMaxStd == 65535
ReconnectSleepMs == 60000
MsPerSecond == 1000
\* Unsigned 32-bit subtraction a - b of DWORD operands. The values of the
\* runs checked stay below 2^31 (the source rules out tick-counter
\* wraparound: runs are shorter than 24 hours), and the wrapped result of
\* a < b is above the model checker's integers: evaluating it is reported as
\* an overflow error, never as a wrong value.
Sub32(a, b) ==
    IF a >= b THEN a - b ELSE (a - b) + 2 ^ 32

\* Unsigned 32-bit product; the products of the runs checked are below 2^31.
Mul32(a, b) == a * b

\* (flags & JOY_RETURNRAWDATA) != 0
HasRawData(flags) == (flags \div JOY_RETURNRAWDATA) % 2 = 1

AxisMaxOf(flags) == IF HasRawData(flags) THEN AxisMaxRaw ELSE AxisMaxStd

\* axisMax * percent / 100 in DWORD arithmetic.
ThresholdOf(axisMax, percent) == Mul32(axisMax, percent) \div 100

\* Mutation: the quotient is rounded to the nearest integer.
PercentOf_Rounded(value, axisMax) ==
    (Mul32(value, 100) + axisMax \div 2) \div axisMax

\* (value * 100U) / axisMax in DWORD arithmetic.
PercentOf(value, axisMax) == Mul32(value, 100) \div axisMax

\* Mutation: the mirror takes axis_max as an exclusive bound.
normalize_pedal_axis_Exclusive(axis_normalization_enabled, raw_value, axis_max) ==
    IF axis_normalization_enabled
    THEN IF raw_value >= axis_max THEN 0 ELSE axis_max - raw_value - 1
    ELSE raw_value

normalize_pedal_axis(axis_normalization_enabled, raw_value, axis_max) ==
    IF axis_normalization_enabled
    THEN Sub32(axis_max, raw_value)
    ELSE raw_value

\* Mutation: values at or above fullMin are interpolated like the others.
ComputeLogicalPct_Unclamped(value, idleMax, fullMin) ==
    IF value <= idleMax THEN 0
    ELSE IF fullMin <= idleMax THEN 0
    ELSE Mul32(100, value - idleMax) \div (fullMin - idleMax)

ComputeLogicalPct(value, idleMax, fullMin) ==
    IF value <= idleMax THEN 0
    ELSE IF value >= fullMin THEN 100
    ELSE IF fullMin <= idleMax THEN 0
    ELSE Mul32(100, value - idleMax) \div (fullMin - idleMax)

(***************************************************************************)
(* Command line and startup.                                               *)
(***************************************************************************)
\* The option values main() starts from, before ParseCommandLine; j records
\* whether --joystick was given.
DefaultOptions ==
    [ monitor_clutch |-> 0, monitor_gas |-> 0,
      gas_deadzone_in |-> 5, gas_deadzone_out |-> 93,
      gas_window |-> 30, gas_cooldown |-> 60, gas_timeout |-> 10,
      gas_min_usage_percent |-> 20,
      axis_normalization_enabled |-> 1,
      clutch_repeat_required |-> 4,
      estimate_gas_deadzone_enabled |-> 0,
      auto_gas_deadzone_enabled |-> 0, auto_gas_deadzone_minimum |-> 0,
      target_vendor_id |-> 0, target_product_id |-> 0,
      telemetry_enabled |-> 0,
      joy_ID |-> 17, joy_Flags |-> JOY_RETURNALL,
      iterations |-> 1, margin |-> 5, sleep_Time |-> 1000,
      j |-> 0 ]

\* The validation at the end of ParseCommandLine: TRUE iff no check exits.
ParseCommandLineAccepts(o) ==
    /\ ~(o.joy_ID > 15 /\ o.target_vendor_id = 0)
    /\ ~(o.margin > 100)
    /\ ~(o.gas_deadzone_in < 0 \/ o.gas_deadzone_in > 100)
    /\ ~(o.gas_deadzone_out < 0 \/ o.gas_deadzone_out > 100)
    /\ ~(o.gas_window <= 0)
    /\ ~(o.gas_timeout <= 0)
    /\ ~(o.gas_cooldown <= 0)
    /\ ~(o.gas_min_usage_percent < 0 \/ o.gas_min_usage_percent > 100)
    /\ ~(o.clutch_repeat_required <= 0)
    /\ ~(o.auto_gas_deadzone_enabled # 0
           /\ (o.auto_gas_deadzone_minimum < 0 \/ o.auto_gas_deadzone_minimum > 100))
    /\ ~(o.estimate_gas_deadzone_enabled # 0 /\ o.monitor_gas = 0)
    /\ ~(o.auto_gas_deadzone_enabled # 0 /\ o.monitor_gas = 0)
    /\ ~(o.auto_gas_deadzone_enabled # 0 /\ o.estimate_gas_deadzone_enabled = 0)
    /\ ~(o.auto_gas_deadzone_enabled # 0
           /\ o.auto_gas_deadzone_minimum > o.gas_deadzone_out)
    /\ ~(o.sleep_Time = 0)
    /\ ~(o.j = 0 /\ o.target_vendor_id = 0)

\* The PedalMonState of main() when the main loop is entered: the struct
\* initialiser, the timing fields set from GetTickCount(), the parsed options
\* o, and the derived axis and gas thresholds. The GetTickCount() calls of
\* one straight-line block are taken to return the same value now: the
\* values stored here are overwritten before the program reads them.
StartupState(o, now) ==
    LET axisMax == AxisMaxOf(o.joy_Flags) IN
    [ monitor_clutch |-> o.monitor_clutch,
      monitor_gas |-> o.monitor_gas,
      gas_deadzone_in |-> o.gas_deadzone_in,
      gas_deadzone_out |-> o.gas_deadzone_out,
      gas_window |-> o.gas_window,
      gas_cooldown |-> o.gas_cooldown,
      gas_timeout |-> o.gas_timeout,
      gas_min_usage_percent |-> o.gas_min_usage_percent,
      axis_normalization_enabled |-> o.axis_normalization_enabled,
      clutch_repeat_required |-> o.clutch_repeat_required,
      estimate_gas_deadzone_enabled |-> o.estimate_gas_deadzone_enabled,
      auto_gas_deadzone_enabled |-> o.auto_gas_deadzone_enabled,
      auto_gas_deadzone_minimum |-> o.auto_gas_deadzone_minimum,
      target_vendor_id |-> o.target_vendor_id,
      target_product_id |-> o.target_product_id,
      telemetry_enabled |-> o.telemetry_enabled,
      gas_physical_pct |-> 0, clutch_physical_pct |-> 0,
      gas_logical_pct |-> 0, clutch_logical_pct |-> 0,
      joy_ID |-> o.joy_ID, joy_Flags |-> o.joy_Flags,
      iterations |-> o.iterations, margin |-> o.margin,
      sleep_Time |-> o.sleep_Time,
      axisMax |-> axisMax,
      axisMargin |-> Mul32(axisMax, o.margin) \div 100,
      lastClutchValue |-> 0, repeatingClutchCount |-> 0,
      isRacing |-> FALSE, peakGasInWindow |-> 0,
      lastFullThrottleTime |-> now,
      lastGasActivityTime |-> now,
      lastGasAlertTime |-> 0,
      gasIdleMax |-> ThresholdOf(axisMax, o.gas_deadzone_in),
      gasFullMin |-> ThresholdOf(axisMax, o.gas_deadzone_out),
      gas_timeout_ms |-> Mul32(o.gas_timeout, MsPerSecond),
      gas_window_ms |-> Mul32(o.gas_window, MsPerSecond),
      gas_cooldown_ms |-> Mul32(o.gas_cooldown, MsPerSecond),
      best_estimate_percent |-> 100, last_printed_estimate |-> 100,
      estimate_window_peak_percent |-> 0,
      estimate_window_start_time |-> now,
      last_estimate_print_time |-> 0,
      currentTime |-> 0, rawGas |-> 0, rawClutch |-> 0,
      gasValue |-> 0, clutchValue |-> 0, closure |-> 0,
      percentReached |-> 0, currentPercent |-> 0,
      iLoop |-> 0, telemetry_sequence |-> 0,
      gas_alert_triggered |-> 0, clutch_alert_triggered |-> 0,
      controller_disconnected |-> 0, controller_reconnected |-> 0,
      gas_estimate_decreased |-> 0, gas_auto_adjust_applied |-> 0,
      last_disconnect_time_ms |-> 0, last_reconnect_time_ms |-> 0 ]

(***************************************************************************)
(* The command lines of the runs checked.                                  *)
(***************************************************************************)
\* --monitor-gas --estimate-gas-deadzone-out --adjust-deadzone-out-with-minimum 30
\* --vendor-id --product-id --telemetry --flags 266 --gas-window 1
\* --gas-cooldown 2 --gas-timeout 1 --iterations N
GasOptions ==
    [DefaultOptions EXCEPT
        !.monitor_gas = 1, !.estimate_gas_deadzone_enabled = 1,
        !.auto_gas_deadzone_enabled = 1, !.auto_gas_deadzone_minimum = 30,
        !.target_vendor_id = 3767, !.target_product_id = 6201,
        !.telemetry_enabled = 1, !.joy_Flags = 266,
        !.gas_window = 1, !.gas_cooldown = 2, !.gas_timeout = 1,
        !.iterations = MaxIterations]

\* --monitor-clutch --vendor-id --product-id --telemetry --flags 266
\* --iterations N
ClutchOptions ==
    [DefaultOptions EXCEPT
        !.monitor_clutch = 1,
        !.target_vendor_id = 3767, !.target_product_id = 6201,
        !.telemetry_enabled = 1, !.joy_Flags = 266,
        !.iterations = MaxIterations]

\* --monitor-clutch --monitor-gas --joystick 0 --vendor-id (no product id)
\* --telemetry --no-axis-normalization --gas-deadzone-in 50
\* --gas-deadzone-out 40 --gas-window 1 --gas-cooldown 2 --gas-timeout 1
MixedOptions ==
    [DefaultOptions EXCEPT
        !.monitor_clutch = 1, !.monitor_gas = 1,
        !.joy_ID = 0, !.j = 1, !.target_vendor_id = 3767,
        !.telemetry_enabled = 1, !.axis_normalization_enabled = 0,
        !.gas_deadzone_in = 50, !.gas_deadzone_out = 40,
        !.gas_window = 1, !.gas_cooldown = 2, !.gas_timeout = 1,
        !.clutch_repeat_required = 2,
        !.iterations = MaxIterations]

\* --monitor-clutch --joystick 0 --iterations N (no telemetry, no identity)
PlainOptions ==
    [DefaultOptions EXCEPT
        !.monitor_clutch = 1, !.joy_ID = 0, !.j = 1,
        !.iterations = MaxIterations]

\* Command lines ParseCommandLine must reject.
RejectedOptions ==
    { [GasOptions EXCEPT !.auto_gas_deadzone_minimum = 95],
      [GasOptions EXCEPT !.gas_cooldown = 0],
      [ClutchOptions EXCEPT !.clutch_repeat_required = 0],
      [PlainOptions EXCEPT !.j = 0, !.joy_ID = 17],
      [GasOptions EXCEPT !.estimate_gas_deadzone_enabled = 0] }

\* --monitor-clutch --joystick 0 --iterations 0 --sleep 16000 (run until
\* terminated, one sample every 16 seconds)
ForeverOptions ==
    [PlainOptions EXCEPT !.iterations = 0, !.sleep_Time = 16000]

CommandLines ==
    {GasOptions, ClutchOptions, MixedOptions, PlainOptions, ForeverOptions}
        \cup RejectedOptions

\* Value of the tick counter (ms) when main() starts.
StartTimes == {1000}

\* Pedal positions the device reports, in thousandths of the axis range, in
\* travel space (0 = idle). On the 0..1023 axis they are the values 0, 214,
\* 500 and 1023 (gas) and 0, 40 and 501 (clutch).
GasLevels == {0, 210, 489, 1000}
ClutchLevels == {0, 40, 490}

\* The raw reading of a pedal at travel position level (thousandths):
\* inverted hardware reports axisMax at rest.
RawOf(s, level) ==
    LET v == (s.axisMax * level) \div 1000 IN
    IF s.axis_normalization_enabled # 0 THEN s.axisMax - v ELSE v

MaxTime == MaxUptimeSec * MsPerSecond

\* The shared memory before the first publication: a zero-filled struct.
ZeroFrame ==
    [k \in DOMAIN StartupState(DefaultOptions, 0) |->
        IF k = "isRacing" THEN FALSE ELSE 0]

Init ==
    \E o \in CommandLines, t0 \in StartTimes :
        /\ ParseCommandLineAccepts(o)
        /\ st = StartupState(o, t0)
        /\ shared = ZeroFrame
        /\ clock = t0
        /\ pc = "loop"
        /\ events = << >>
        /\ obs = [lastDriftAlertAt |-> -1, driftAlerts |-> 0,
                  samplesSinceAttach |-> 0, readAttempts |-> 0,
                  windowMax |-> 0, estimateMax |-> 0]
        /\ view = [mem |-> ZeroFrame, before |-> ZeroFrame,
                   snapshot |-> ZeroFrame]
        /\ inst = << >>
        /\ mutex = {}
        /\ probe = << >>

(***************************************************************************)
(* One iteration of the main loop, in the order of the code.               *)
(***************************************************************************)
\* Mutation: the loop condition compares the counter before the increment.
LoopContinues_PostIncrement(s) == s.iterations = 0 \/ s.iLoop <= s.iterations

\* while (st.iterations == 0 || ++st.iLoop <= st.iterations)
LoopContinues(s) == s.iterations = 0 \/ s.iLoop + 1 <= s.iterations

LoopEnter(s) ==
    IF s.iterations = 0 THEN s ELSE [s EXCEPT !.iLoop = @ + 1]

\* Mutation: gas_alert_triggered is not cleared at the start of an
\* iteration.
ResetOneShots_KeepsGasAlert(s) ==
    [s EXCEPT !.clutch_alert_triggered = 0,
              !.controller_reconnected = 0,
              !.gas_estimate_decreased = 0,
              !.gas_auto_adjust_applied = 0]

\* Mutation: controller_reconnected is not cleared at the start of an
\* iteration.
ResetOneShots_KeepsReconnected(s) ==
    [s EXCEPT !.gas_alert_triggered = 0,
              !.clutch_alert_triggered = 0,
              !.gas_estimate_decreased = 0,
              !.gas_auto_adjust_applied = 0]

\* Reset of the per-iteration one-shot flags; controller_disconnected is
\* latched and is not cleared here.
ResetOneShots(s) ==
    [s EXCEPT !.gas_alert_triggered = 0,
              !.clutch_alert_triggered = 0,
              !.controller_reconnected = 0,
              !.gas_estimate_decreased = 0,
              !.gas_auto_adjust_applied = 0]

\* Mutation: one of the two ids is taken as an identity.
HasIdentity_Either(s) == s.target_vendor_id # 0 \/ s.target_product_id # 0

HasIdentity(s) == s.target_vendor_id # 0 /\ s.target_product_id # 0

\* A successful read at tick count now: raw values, normalised values and
\* the four percentages.
Sample(s, rawGas, rawClutch, now) ==
    LET gasValue == normalize_pedal_axis(s.axis_normalization_enabled # 0,
                                         rawGas, s.axisMax)
        clutchValue == normalize_pedal_axis(s.axis_normalization_enabled # 0,
                                            rawClutch, s.axisMax)
    IN [s EXCEPT
          !.currentTime = now,
          !.rawGas = rawGas,
          !.rawClutch = rawClutch,
          !.gasValue = gasValue,
          !.clutchValue = clutchValue,
          !.gas_physical_pct =
              IF s.axisMax > 0 THEN Mul32(100, gasValue) \div s.axisMax ELSE 0,
          !.clutch_physical_pct =
              IF s.axisMax > 0 THEN Mul32(100, clutchValue) \div s.axisMax ELSE 0,
          !.gas_logical_pct =
              ComputeLogicalPct(gasValue, s.gasIdleMax, s.gasFullMin),
          !.clutch_logical_pct =
              ComputeLogicalPct(clutchValue, s.gasIdleMax, s.gasFullMin)]

(***************************************************************************)
(* 1. Clutch monitoring.                                                   *)
(***************************************************************************)
\* Gas at/near idle and clutch not fully released.
StickinessPrecondition(s) ==
    (s.gasValue <= s.gasIdleMax) /\ (s.clutchValue > 0)

ClutchClosure(s) ==
    IF s.clutchValue >= s.lastClutchValue
    THEN Sub32(s.clutchValue, s.lastClutchValue)
    ELSE Sub32(s.lastClutchValue, s.clutchValue)

\* Mutation: a sample that moves more than the margin holds the count.
ClutchStreak_HoldsOnJump(s) ==
    IF StickinessPrecondition(s)
    THEN IF ClutchClosure(s) <= s.axisMargin
         THEN s.repeatingClutchCount + 1
         ELSE s.repeatingClutchCount
    ELSE 0

\* repeatingClutchCount after the streak update, before the alert test.
ClutchStreak(s) ==
    IF StickinessPrecondition(s)
    THEN IF ClutchClosure(s) <= s.axisMargin
         THEN s.repeatingClutchCount + 1
         ELSE 0
    ELSE 0

\* Mutation: the alert test uses > instead of >=.
ClutchAlertFires_Strict(s, count) == count > s.clutch_repeat_required

ClutchAlertFires(s, count) == count >= s.clutch_repeat_required

\* Mutation: the alert leaves the streak counter alone.
ClutchMonitor_KeepsCount(s) ==
    IF s.monitor_clutch = 0 THEN s
    ELSE
      LET count == ClutchStreak(s)
          fires == ClutchAlertFires(s, count)
      IN [s EXCEPT
            !.closure = IF StickinessPrecondition(s) THEN ClutchClosure(s) ELSE @,
            !.repeatingClutchCount = count,
            !.lastClutchValue = s.clutchValue,
            !.clutch_alert_triggered = IF fires THEN 1 ELSE @]

ClutchMonitor(s) ==
    IF s.monitor_clutch = 0 THEN s
    ELSE
      LET count == ClutchStreak(s)
          fires == ClutchAlertFires(s, count)
      IN [s EXCEPT
            !.closure = IF StickinessPrecondition(s) THEN ClutchClosure(s) ELSE @,
            !.repeatingClutchCount = IF fires THEN 0 ELSE count,
            !.lastClutchValue = s.clutchValue,
            !.clutch_alert_triggered = IF fires THEN 1 ELSE @]

(***************************************************************************)
(* 2. Gas monitoring.                                                      *)
(***************************************************************************)
RestartEstimateWindow(s) ==
    IF s.estimate_gas_deadzone_enabled # 0
    THEN [s EXCEPT !.estimate_window_start_time = s.currentTime,
                   !.estimate_window_peak_percent = 0]
    ELSE s

\* Mutation: the auto-pause also clears the drift window.
GasActivity_PauseClearsWindow(s) ==
    IF s.gasValue > s.gasIdleMax
    THEN LET a == IF ~s.isRacing
                  THEN RestartEstimateWindow(
                         [s EXCEPT !.lastFullThrottleTime = s.currentTime,
                                   !.peakGasInWindow = 0])
                  ELSE s
         IN [a EXCEPT !.isRacing = TRUE,
                      !.lastGasActivityTime = s.currentTime]
    ELSE IF s.isRacing
            /\ Sub32(s.currentTime, s.lastGasActivityTime) > s.gas_timeout_ms
         THEN RestartEstimateWindow(
                [s EXCEPT !.isRacing = FALSE,
                          !.lastFullThrottleTime = s.currentTime,
                          !.peakGasInWindow = 0])
         ELSE s

\* Mutation: the inactivity timeout is measured from the last full throttle.
GasActivity_TimeoutFromFullThrottle(s) ==
    IF s.gasValue > s.gasIdleMax
    THEN LET a == IF ~s.isRacing
                  THEN RestartEstimateWindow(
                         [s EXCEPT !.lastFullThrottleTime = s.currentTime,
                                   !.peakGasInWindow = 0])
                  ELSE s
         IN [a EXCEPT !.isRacing = TRUE,
                      !.lastGasActivityTime = s.currentTime]
    ELSE IF s.isRacing
            /\ Sub32(s.currentTime, s.lastFullThrottleTime) > s.gas_timeout_ms
         THEN RestartEstimateWindow([s EXCEPT !.isRacing = FALSE])
         ELSE s

\* Mutation: a new racing window keeps the peak of the one before.
GasActivity_KeepsPeak(s) ==
    IF s.gasValue > s.gasIdleMax
    THEN LET a == IF ~s.isRacing
                  THEN RestartEstimateWindow(
                         [s EXCEPT !.lastFullThrottleTime = s.currentTime])
                  ELSE s
         IN [a EXCEPT !.isRacing = TRUE,
                      !.lastGasActivityTime = s.currentTime]
    ELSE IF s.isRacing
            /\ Sub32(s.currentTime, s.lastGasActivityTime) > s.gas_timeout_ms
         THEN RestartEstimateWindow([s EXCEPT !.isRacing = FALSE])
         ELSE s

\* Activity detection and the isRacing state.
GasActivity(s) ==
    IF s.gasValue > s.gasIdleMax
    THEN LET a == IF ~s.isRacing
                  THEN RestartEstimateWindow(
                         [s EXCEPT !.lastFullThrottleTime = s.currentTime,
                                   !.peakGasInWindow = 0])
                  ELSE s
         IN [a EXCEPT !.isRacing = TRUE,
                      !.lastGasActivityTime = s.currentTime]
    ELSE IF s.isRacing
            /\ Sub32(s.currentTime, s.lastGasActivityTime) > s.gas_timeout_ms
         THEN RestartEstimateWindow([s EXCEPT !.isRacing = FALSE])
         ELSE s

\* Mutation: the evaluation waits for the cooldown only.
DriftEvaluationDue_CooldownOnly(s) ==
    Sub32(s.currentTime, s.lastGasAlertTime) > s.gas_cooldown_ms

\* The window since the last full throttle has elapsed and the alert
\* cooldown has passed.
DriftEvaluationDue(s) ==
    /\ Sub32(s.currentTime, s.lastFullThrottleTime) > s.gas_window_ms
    /\ Sub32(s.currentTime, s.lastGasAlertTime) > s.gas_cooldown_ms

\* Mutation: the drift alert uses >= like the estimator.
DriftAlertCondition_NonStrict(s, percentReached) ==
    percentReached >= s.gas_min_usage_percent

\* Drift detection uses a strict comparison against gas_min_usage_percent.
DriftAlertCondition(s, percentReached) ==
    percentReached > s.gas_min_usage_percent

\* Mutation: the alert does not record its time.
DriftAlert_NoTimestamp(s) ==
    [s EXCEPT !.gas_alert_triggered = 1]

\* Mutation: the alert starts a new drift window.
DriftAlert_RestartsWindow(s) ==
    [s EXCEPT !.gas_alert_triggered = 1,
              !.lastGasAlertTime = s.currentTime,
              !.lastFullThrottleTime = s.currentTime,
              !.peakGasInWindow = 0]

\* What firing the drift alert does to the state.
DriftAlert(s) ==
    [s EXCEPT !.gas_alert_triggered = 1,
              !.lastGasAlertTime = s.currentTime]

\* Mutation: the peak of the drift window is the latest sample.
GasDrift_LatestSample(s) ==
    LET p == [s EXCEPT !.peakGasInWindow = s.gasValue]
    IN IF s.gasValue >= s.gasFullMin
       THEN [p EXCEPT !.lastFullThrottleTime = s.currentTime,
                      !.peakGasInWindow = 0]
       ELSE IF DriftEvaluationDue(p)
            THEN LET percentReached == PercentOf(p.peakGasInWindow, p.axisMax)
                     q == [p EXCEPT !.percentReached = percentReached]
                 IN IF DriftAlertCondition(q, percentReached)
                    THEN DriftAlert(q)
                    ELSE q
            ELSE p

\* Mutation: a full throttle past the window and the cooldown raises the
\* alert with percentReached 100.
GasDrift_AlertsAtFullThrottle(s) ==
    LET p == [s EXCEPT !.peakGasInWindow =
                          IF s.gasValue > @ THEN s.gasValue ELSE @]
    IN IF s.gasValue >= s.gasFullMin
       THEN LET r == [p EXCEPT !.lastFullThrottleTime = s.currentTime,
                               !.peakGasInWindow = 0]
            IN IF DriftEvaluationDue(p)
               THEN DriftAlert([r EXCEPT !.percentReached = 100])
               ELSE r
       ELSE IF DriftEvaluationDue(p)
            THEN LET percentReached == PercentOf(p.peakGasInWindow, p.axisMax)
                     q == [p EXCEPT !.percentReached = percentReached]
                 IN IF DriftAlertCondition(q, percentReached)
                    THEN DriftAlert(q)
                    ELSE q
            ELSE p

\* Performance/drift check; runs only while isRacing.
GasDrift(s) ==
    LET p == [s EXCEPT !.peakGasInWindow =
                          IF s.gasValue > @ THEN s.gasValue ELSE @]
    IN IF s.gasValue >= s.gasFullMin
       THEN [p EXCEPT !.lastFullThrottleTime = s.currentTime,
                      !.peakGasInWindow = 0]
       ELSE IF DriftEvaluationDue(p)
            THEN LET percentReached == PercentOf(p.peakGasInWindow, p.axisMax)
                     q == [p EXCEPT !.percentReached = percentReached]
                 IN IF DriftAlertCondition(q, percentReached)
                    THEN DriftAlert(q)
                    ELSE q
            ELSE p

\* Mutation: any meaningful window peak replaces the best estimate.
EstimatorAccepts_AnyCandidate(s) ==
    s.estimate_window_peak_percent >= s.gas_min_usage_percent

\* Mutation: the estimator compares strictly, like the drift alert.
EstimatorAccepts_Strict(s) ==
    /\ s.estimate_window_peak_percent > s.gas_min_usage_percent
    /\ s.estimate_window_peak_percent < s.best_estimate_percent

\* The estimator accepts a closing window: non-strict comparison against
\* gas_min_usage_percent, and the candidate must lower the best estimate.
EstimatorAccepts(s) ==
    /\ s.estimate_window_peak_percent >= s.gas_min_usage_percent
    /\ s.estimate_window_peak_percent < s.best_estimate_percent

\* Mutation: the notification needs more than gas_cooldown since the last.
EstimatePrint_StrictInterval(s) ==
    IF s.best_estimate_percent < s.last_printed_estimate
       /\ Sub32(s.currentTime, s.last_estimate_print_time) > s.gas_cooldown_ms
    THEN [s EXCEPT !.gas_estimate_decreased = 1,
                   !.last_printed_estimate = s.best_estimate_percent,
                   !.last_estimate_print_time = s.currentTime]
    ELSE s

\* The notification of a lowered estimate, at most one per gas_cooldown.
EstimatePrint(s) ==
    IF s.best_estimate_percent < s.last_printed_estimate
       /\ Sub32(s.currentTime, s.last_estimate_print_time) >= s.gas_cooldown_ms
    THEN [s EXCEPT !.gas_estimate_decreased = 1,
                   !.last_printed_estimate = s.best_estimate_percent,
                   !.last_estimate_print_time = s.currentTime]
    ELSE s

\* Mutation: auto-adjust ignores the configured minimum.
AutoAdjustCondition_NoFloor(s) ==
    /\ s.auto_gas_deadzone_enabled # 0
    /\ s.best_estimate_percent < s.gas_deadzone_out

AutoAdjustCondition(s) ==
    /\ s.auto_gas_deadzone_enabled # 0
    /\ s.best_estimate_percent < s.gas_deadzone_out
    /\ s.best_estimate_percent >= s.auto_gas_deadzone_minimum

\* Mutation: an estimate below the minimum moves gas_deadzone_out to the
\* minimum.
AutoAdjust_Clamps(s) ==
    IF AutoAdjustCondition(s)
    THEN [s EXCEPT !.gas_deadzone_out = s.best_estimate_percent,
                   !.gasFullMin = ThresholdOf(s.axisMax, s.best_estimate_percent),
                   !.gas_auto_adjust_applied = 1]
    ELSE IF s.auto_gas_deadzone_enabled # 0
            /\ s.auto_gas_deadzone_minimum < s.gas_deadzone_out
         THEN [s EXCEPT !.gas_deadzone_out = s.auto_gas_deadzone_minimum,
                        !.gasFullMin = ThresholdOf(s.axisMax,
                                                   s.auto_gas_deadzone_minimum),
                        !.gas_auto_adjust_applied = 1]
         ELSE s

\* Optional auto-adjust of gas_deadzone_out to a lowered best estimate.
AutoAdjust(s) ==
    IF AutoAdjustCondition(s)
    THEN [s EXCEPT !.gas_deadzone_out = s.best_estimate_percent,
                   !.gasFullMin = ThresholdOf(s.axisMax, s.best_estimate_percent),
                   !.gas_auto_adjust_applied = 1]
    ELSE s

\* Peak usage of the current estimation window.
EstimateWindowPeak(s) ==
    IF s.gasValue > s.gasIdleMax
    THEN LET currentPercent == PercentOf(s.gasValue, s.axisMax)
         IN [s EXCEPT !.currentPercent = currentPercent,
                      !.estimate_window_peak_percent =
                          IF currentPercent > @ THEN currentPercent ELSE @]
    ELSE s

EstimateWindowElapsed(s) ==
    Sub32(s.currentTime, s.estimate_window_start_time) >= s.gas_cooldown_ms

\* Gas deadzone-out estimation and optional auto-adjust; runs only while
\* isRacing.
GasEstimator(s) ==
    IF s.estimate_gas_deadzone_enabled = 0 THEN s
    ELSE
      LET u == EstimateWindowPeak(s)
      IN IF EstimateWindowElapsed(u)
         THEN LET v == IF EstimatorAccepts(u)
                       THEN AutoAdjust(EstimatePrint(
                              [u EXCEPT !.best_estimate_percent =
                                           u.estimate_window_peak_percent]))
                       ELSE u
              IN [v EXCEPT !.estimate_window_start_time = s.currentTime,
                           !.estimate_window_peak_percent = 0]
         ELSE u

\* Mutation: the estimator also runs while Idle.
GasMonitor_EstimatesWhileIdle(s) ==
    IF s.monitor_gas = 0 THEN s
    ELSE LET a == GasActivity(s)
         IN GasEstimator(IF a.isRacing THEN GasDrift(a) ELSE a)

GasMonitor(s) ==
    IF s.monitor_gas = 0 THEN s
    ELSE LET a == GasActivity(s)
         IN IF a.isRacing THEN GasEstimator(GasDrift(a)) ELSE a

(***************************************************************************)
(* Telemetry.                                                              *)
(***************************************************************************)
\* Mutation: the publication leaves the sequence number alone.
Telemetry_Publish_NoIncrement(s) == s

\* The producer's state after Telemetry_Publish.
Telemetry_Publish(s) ==
    IF s.telemetry_enabled # 0
    THEN [s EXCEPT !.telemetry_sequence = @ + 1]
    ELSE s

\* The shared memory after Telemetry_Publish of state s.
SharedAfterPublish(s, old) ==
    IF s.telemetry_enabled # 0 THEN Telemetry_Publish(s) ELSE old

PublishEvent(s) ==
    IF s.telemetry_enabled # 0 THEN <<"publish">> ELSE << >>

\* The processing of one successfully read sample, up to the publication.
ProcessSample(s, rawGas, rawClutch, now) ==
    GasMonitor(ClutchMonitor(Sample(ResetOneShots(LoopEnter(s)),
                                    rawGas, rawClutch, now)))

\* Notifier and channel calls of a processed sample, in the order made.
SampleEvents(s) ==
    <<"read_ok">>
    \o (IF s.clutch_alert_triggered = 1 THEN <<"alert:Rudder">> ELSE << >>)
    \o (IF s.gas_alert_triggered = 1 THEN <<"alert:Gas">> ELSE << >>)
    \o (IF s.gas_estimate_decreased = 1 THEN <<"alert:estimate">> ELSE << >>)
    \o PublishEvent(s)
    \o <<"sleep">>

\* The raw readings offered to an iteration. A pedal that is not monitored
\* is only at rest or fully pressed (gas) or at rest (clutch).
GasInputs(s) ==
    { RawOf(s, l) : l \in IF s.monitor_gas # 0 THEN GasLevels ELSE {0, 1000} }

ClutchInputs(s) ==
    { RawOf(s, l) : l \in IF s.monitor_clutch # 0 THEN ClutchLevels ELSE {0} }

\* Samples read from the current attachment, counted up to the clutch
\* repeat count.
CountSample(s, n) ==
    IF n < s.clutch_repeat_required THEN n + 1 ELSE n

\* History of the drift window: the largest gasValue of the samples
\* processed since the last full throttle (the full throttle excluded) or
\* since the sample that opened the racing window (that sample included).
\* prev is the state before the sample, s the state after it, m the value
\* so far.
DriftWindowMax(prev, s, m) ==
    IF s.monitor_gas = 0 \/ ~s.isRacing THEN m
    ELSE IF s.gasValue >= prev.gasFullMin THEN 0
    ELSE IF ~prev.isRacing THEN s.gasValue
    ELSE IF s.gasValue > m THEN s.gasValue ELSE m

\* The largest percentage of the axis among the samples out of the idle
\* band since the estimation window was opened, the sample of s included.
EstimateWindowSoFar(prev, s, m) ==
    LET before == IF prev.isRacing THEN m ELSE 0
        percent == (s.gasValue * 100) \div s.axisMax
    IN IF s.gasValue > prev.gasIdleMax /\ percent > before
       THEN percent ELSE before

\* The estimation window of s closes with the sample of s: gas_cooldown has
\* passed since the window was opened.
EstimateWindowCloses(prev, s) ==
    /\ prev.isRacing
    /\ s.currentTime - prev.estimate_window_start_time >= prev.gas_cooldown_ms

\* History of the estimation window after the sample of s: empty while
\* Idle and after a window close.
EstimateWindowMax(prev, s, m) ==
    IF s.monitor_gas = 0 \/ s.estimate_gas_deadzone_enabled = 0 THEN m
    ELSE IF ~s.isRacing \/ EstimateWindowCloses(prev, s) THEN 0
    ELSE EstimateWindowSoFar(prev, s, m)

\* A loop iteration whose joyGetPosEx succeeds. Sleep(sleep_Time) advances
\* the tick counter by sleep_Time: the processing of a sample takes less
\* than the counter resolves. The device reports rawGas and rawClutch.
TickOn(rawGas, rawClutch) ==
    /\ pc = "loop"
    /\ LoopContinues(st)
    /\ clock + st.sleep_Time <= MaxTime
    /\ LET s == ProcessSample(st, rawGas, rawClutch, clock) IN
           /\ st' = Telemetry_Publish(s)
           /\ shared' = SharedAfterPublish(s, shared)
           /\ events' = SampleEvents(s)
           /\ obs' = [lastDriftAlertAt |->
                          IF s.gas_alert_triggered = 1 THEN s.currentTime
                          ELSE obs.lastDriftAlertAt,
                      driftAlerts |->
                          IF s.gas_alert_triggered = 1 /\ obs.driftAlerts < 2
                          THEN obs.driftAlerts + 1
                          ELSE obs.driftAlerts,
                      samplesSinceAttach |->
                          CountSample(s, obs.samplesSinceAttach),
                      readAttempts |-> obs.readAttempts + 1,
                      windowMax |-> DriftWindowMax(st, s, obs.windowMax),
                      estimateMax |->
                          EstimateWindowMax(st, s, obs.estimateMax)]
    /\ clock' = clock + st.sleep_Time
    /\ pc' = "loop"
    /\ UNCHANGED envVars

Tick ==
    \E rawGas \in GasInputs(st), rawClutch \in ClutchInputs(st) :
        TickOn(rawGas, rawClutch)

\* A loop iteration whose read fails with no VID/PID pair configured: the
\* frame is skipped.
ReadFailSkip ==
    /\ pc = "loop"
    /\ LoopContinues(st)
    /\ ~HasIdentity(st)
    /\ clock + st.sleep_Time <= MaxTime
    /\ st' = ResetOneShots(LoopEnter(st))
    /\ events' = <<"read_fail", "sleep">>
    /\ clock' = clock + st.sleep_Time
    /\ obs' = [obs EXCEPT !.readAttempts = @ + 1]
    /\ UNCHANGED <<shared, pc>>
    /\ UNCHANGED envVars

\* Mutation: the disconnect does not latch controller_disconnected.
DisconnectState_Unlatched(s, now) ==
    [ResetOneShots(LoopEnter(s)) EXCEPT
        !.controller_reconnected = 0,
        !.last_disconnect_time_ms = now]

\* The state on entering reconnection mode.
DisconnectState(s, now) ==
    [ResetOneShots(LoopEnter(s)) EXCEPT
        !.controller_disconnected = 1,
        !.controller_reconnected = 0,
        !.last_disconnect_time_ms = now]

\* A loop iteration whose read fails with a VID/PID pair configured.
Disconnect ==
    /\ pc = "loop"
    /\ LoopContinues(st)
    /\ HasIdentity(st)
    /\ LET s == DisconnectState(st, clock) IN
         /\ st' = Telemetry_Publish(s)
         /\ shared' = SharedAfterPublish(s, shared)
         /\ events' = <<"read_fail", "alert:disconnected">> \o PublishEvent(s)
    /\ pc' = "reconnect"
    /\ obs' = [obs EXCEPT !.readAttempts = @ + 1]
    /\ UNCHANGED clock
    /\ UNCHANGED envVars

\* Mutation: a failed rediscovery retries without a notification.
RediscoverFail_Silent ==
    /\ pc = "reconnect"
    /\ clock + ReconnectSleepMs <= MaxTime
    /\ clock' = clock + ReconnectSleepMs
    /\ events' = <<"sleep60", "find_fail">>
    /\ UNCHANGED <<st, shared, pc, obs>>
    /\ UNCHANGED envVars

\* One round of the reconnect loop in which FindJoystick returns -1.
RediscoverFail ==
    /\ pc = "reconnect"
    /\ clock + ReconnectSleepMs <= MaxTime
    /\ clock' = clock + ReconnectSleepMs
    /\ events' = <<"sleep60", "find_fail", "alert:not_found">>
    /\ UNCHANGED <<st, shared, pc, obs>>
    /\ UNCHANGED envVars

\* The reconnect event, as published.
ReconnectedState(s, now) ==
    [s EXCEPT !.joy_ID = 0,
              !.controller_disconnected = 0,
              !.controller_reconnected = 1,
              !.last_reconnect_time_ms = now]

\* Mutation: the reset leaves the estimator's best estimate alone.
ReconnectReset_KeepsEstimate(s, now) ==
    LET axisMax == AxisMaxOf(s.joy_Flags) IN
    [s EXCEPT !.axisMax = axisMax,
              !.gasIdleMax = ThresholdOf(axisMax, s.gas_deadzone_in),
              !.gasFullMin = ThresholdOf(axisMax, s.gas_deadzone_out),
              !.lastFullThrottleTime = now,
              !.lastGasActivityTime = now,
              !.isRacing = FALSE,
              !.peakGasInWindow = 0,
              !.lastClutchValue = 0,
              !.repeatingClutchCount = 0,
              !.last_printed_estimate = 100,
              !.estimate_window_peak_percent = 0,
              !.estimate_window_start_time = now,
              !.last_estimate_print_time = 0]

\* Mutation: the reset leaves the clutch streak alone.
ReconnectReset_KeepsStreak(s, now) ==
    LET axisMax == AxisMaxOf(s.joy_Flags) IN
    [s EXCEPT !.axisMax = axisMax,
              !.gasIdleMax = ThresholdOf(axisMax, s.gas_deadzone_in),
              !.gasFullMin = ThresholdOf(axisMax, s.gas_deadzone_out),
              !.lastFullThrottleTime = now,
              !.lastGasActivityTime = now,
              !.isRacing = FALSE,
              !.peakGasInWindow = 0,
              !.best_estimate_percent = 100,
              !.last_printed_estimate = 100,
              !.estimate_window_peak_percent = 0,
              !.estimate_window_start_time = now,
              !.last_estimate_print_time = 0]

\* Mutation: the reconnect recomputes gasFullMin from the default
\* gas_deadzone_out.
ReconnectReset_DefaultThreshold(s, now) ==
    LET axisMax == AxisMaxOf(s.joy_Flags) IN
    [s EXCEPT !.axisMax = axisMax,
              !.gasIdleMax = ThresholdOf(axisMax, s.gas_deadzone_in),
              !.gasFullMin = ThresholdOf(axisMax, DefaultOptions.gas_deadzone_out),
              !.lastFullThrottleTime = now,
              !.lastGasActivityTime = now,
              !.isRacing = FALSE,
              !.peakGasInWindow = 0,
              !.lastClutchValue = 0,
              !.repeatingClutchCount = 0,
              !.best_estimate_percent = 100,
              !.last_printed_estimate = 100,
              !.estimate_window_peak_percent = 0,
              !.estimate_window_start_time = now,
              !.last_estimate_print_time = 0]

\* Recomputation of the thresholds and reset of the gas, clutch and
\* estimator state after a reconnect; now is the value of GetTickCount().
ReconnectReset(s, now) ==
    LET axisMax == AxisMaxOf(s.joy_Flags) IN
    [s EXCEPT !.axisMax = axisMax,
              !.gasIdleMax = ThresholdOf(axisMax, s.gas_deadzone_in),
              !.gasFullMin = ThresholdOf(axisMax, s.gas_deadzone_out),
              !.lastFullThrottleTime = now,
              !.lastGasActivityTime = now,
              !.isRacing = FALSE,
              !.peakGasInWindow = 0,
              !.lastClutchValue = 0,
              !.repeatingClutchCount = 0,
              !.best_estimate_percent = 100,
              !.last_printed_estimate = 100,
              !.estimate_window_peak_percent = 0,
              !.estimate_window_start_time = now,
              !.last_estimate_print_time = 0]

\* One round of the reconnect loop in which FindJoystick finds the device.
RediscoverSuccess ==
    /\ pc = "reconnect"
    /\ clock + ReconnectSleepMs <= MaxTime
    /\ LET now == clock + ReconnectSleepMs
           s == ReconnectedState(st, now)
       IN /\ shared' = SharedAfterPublish(s, shared)
          /\ events' = <<"sleep60", "find_ok", "alert:found">> \o PublishEvent(s)
          /\ st' = ReconnectReset(Telemetry_Publish(s), now)
          /\ clock' = now
    /\ obs' = [obs EXCEPT !.samplesSinceAttach = 0,
                          !.windowMax = 0, !.estimateMax = 0]
    /\ pc' = "loop"
    /\ UNCHANGED envVars

\* The iteration limit is reached: the loop condition fails.
Finish ==
    /\ pc = "loop"
    /\ ~LoopContinues(st)
    /\ st' = [st EXCEPT !.iLoop = @ + 1]
    /\ pc' = "done"
    /\ events' = <<"exit">>
    /\ UNCHANGED <<shared, clock, obs>>
    /\ UNCHANGED envVars

Next ==
    \/ Tick
    \/ ReadFailSkip
    \/ Disconnect
    \/ RediscoverFail
    \/ RediscoverSuccess
    \/ Finish

Spec == Init /\ [][Next]_vars

(***************************************************************************)
(* Properties.                                                             *)
(***************************************************************************)
Emitted(seq, e) == \E i \in 1 .. Len(seq) : seq[i] = e

\* C1: with clutch monitoring on, after every processed tick
\* repeatingClutchCount is in 0 .. clutch_repeat_required - 1; it is 0 at the
\* end of a tick in which the clutch alert fired and at the end of a tick
\* whose sample does not satisfy the stickiness precondition.
C1_ClutchCountBounded ==
    st.monitor_clutch # 0 =>
      /\ st.repeatingClutchCount \in 0 .. (st.clutch_repeat_required - 1)
      /\ (st.clutch_alert_triggered = 1 => st.repeatingClutchCount = 0)
      /\ (~((st.gasValue <= st.gasIdleMax) /\ (st.clutchValue > 0))
             => st.repeatingClutchCount = 0)

\* A tick on which the clutch alert fired, the precondition holding.
C1_Witness ==
    /\ st.monitor_clutch # 0
    /\ st.clutch_alert_triggered = 1
    /\ st.gasValue <= st.gasIdleMax
    /\ st.clutchValue > 0
    /\ st.repeatingClutchCount = 0

\* C2: best_estimate_percent starts at 100, never increases from one step to
\* the next except in the reconnect reset, which sets it to 100.
C2_BestEstimateNonIncreasing ==
    /\ st.best_estimate_percent = 100
    /\ [][ \/ st'.best_estimate_percent <= st.best_estimate_percent
           \/ /\ Emitted(events', "find_ok")
              /\ st.controller_disconnected = 1
              /\ st'.best_estimate_percent = 100 ]_vars

\* A lowered estimate while the running window has already seen more travel
\* than the estimate.
C2_Witness ==
    /\ st.isRacing
    /\ st.best_estimate_percent < 100
    /\ st.estimate_window_peak_percent > st.best_estimate_percent

\* C3: with auto-adjust enabled gas_deadzone_out never increases (reconnects
\* included) and never is below auto_gas_deadzone_minimum.
C3_AutoAdjustBounded ==
    /\ [](st.auto_gas_deadzone_enabled # 0
            => st.auto_gas_deadzone_minimum <= st.gas_deadzone_out)
    /\ [][st.auto_gas_deadzone_enabled # 0
            => st'.gas_deadzone_out <= st.gas_deadzone_out]_vars

\* Auto-adjust has lowered gas_deadzone_out, and a still lower estimate,
\* below the minimum, has left it alone.
C3_Witness ==
    /\ st.auto_gas_deadzone_enabled # 0
    /\ st.gas_deadzone_out < 93
    /\ st.best_estimate_percent < st.auto_gas_deadzone_minimum

\* C4: gasIdleMax < gasFullMin in every state of the running monitor.
C4_IdleBelowFull == st.gasIdleMax < st.gasFullMin

\* C5: a drift alert fires only with percentReached > gas_min_usage_percent,
\* while the estimator accepts a closing window whose peak equals
\* gas_min_usage_percent (and is below the best estimate).
C5_AlertStrictEstimatorNonStrict ==
    /\ [](st.gas_alert_triggered = 1
            => st.percentReached > st.gas_min_usage_percent)
    /\ [][ ( /\ Emitted(events', "read_ok")
             /\ st.isRacing /\ st'.isRacing
             /\ st.estimate_gas_deadzone_enabled # 0
             /\ st'.estimate_window_start_time = st'.currentTime
             /\ st.gas_min_usage_percent < st.best_estimate_percent
             /\ LET seen == IF st'.gasValue > st.gasIdleMax
                            THEN (st'.gasValue * 100) \div st.axisMax
                            ELSE 0
                    peak == IF seen > st.estimate_window_peak_percent
                            THEN seen
                            ELSE st.estimate_window_peak_percent
                IN peak = st.gas_min_usage_percent )
           => st'.best_estimate_percent = st.gas_min_usage_percent ]_vars

\* One tick on which the drift evaluation found percentReached equal to the
\* minimum and raised no alert, and the estimator lowered the best estimate
\* to that same percentage.
C5_Witness ==
    /\ Emitted(events, "read_ok")
    /\ st.isRacing
    /\ st.percentReached = st.gas_min_usage_percent
    /\ st.gas_alert_triggered = 0
    /\ st.gas_estimate_decreased = 1
    /\ st.best_estimate_percent = st.gas_min_usage_percent

\* C6: two drift alerts are more than gas_cooldown apart.
C6_DriftAlertsRateLimited ==
    [][ (Emitted(events', "alert:Gas") /\ obs.lastDriftAlertAt >= 0)
          => st'.currentTime - obs.lastDriftAlertAt > st.gas_cooldown_ms ]_vars

\* A second drift alert has fired.
C6_Witness ==
    /\ obs.driftAlerts = 2
    /\ st.gas_alert_triggered = 1
    /\ Emitted(events, "alert:Gas")

\* The step that leaves the reconnect loop.
Rediscovery == st.controller_disconnected = 1 /\ Emitted(events', "find_ok")

\* What the reset leaves of clutch, gas and estimator state, apart from
\* lastGasAlertTime.
ResetFields(s, now) ==
    /\ s.lastClutchValue = 0
    /\ s.repeatingClutchCount = 0
    /\ s.isRacing = FALSE
    /\ s.peakGasInWindow = 0
    /\ s.lastFullThrottleTime = now
    /\ s.lastGasActivityTime = now
    /\ s.best_estimate_percent = 100
    /\ s.last_printed_estimate = 100
    /\ s.estimate_window_peak_percent = 0
    /\ s.estimate_window_start_time = now
    /\ s.last_estimate_print_time = 0
    /\ s.axisMax = (IF (s.joy_Flags \div 256) % 2 = 1 THEN 1023 ELSE 65535)
    /\ s.gasIdleMax = (s.axisMax * s.gas_deadzone_in) \div 100
    /\ s.gasFullMin = (s.axisMax * s.gas_deadzone_out) \div 100

C8_NoStaleAlertAfterReconnect ==
    [][ st.last_reconnect_time_ms > 0 =>
          /\ Emitted(events', "alert:Gas") =>
               /\ st'.currentTime - st.last_reconnect_time_ms > st.gas_window_ms
               /\ st'.lastFullThrottleTime >= st.last_reconnect_time_ms
               /\ st'.currentTime - st'.lastFullThrottleTime > st.gas_window_ms
          /\ Emitted(events', "alert:Rudder") =>
               obs'.samplesSinceAttach >= st.clutch_repeat_required ]_vars

\* A drift alert after a reconnect.
C8_Witness ==
    /\ st.last_reconnect_time_ms > 0
    /\ st.gas_alert_triggered = 1
    /\ Emitted(events, "alert:Gas")

\* C9: a failed read with a VID/PID pair configured latches
\* controller_disconnected and publishes a frame showing it (and
\* controller_reconnected = 0) before any rediscovery attempt; the flag stays
\* 1 through failed attempts and is cleared only by a successful one; while
\* it is 1 no gas or clutch alert fires and no frame showing it is published.
C9_DisconnectLatched ==
    /\ [](st.controller_disconnected = 1 <=> pc = "reconnect")
    /\ [][ (pc = "loop" /\ Emitted(events', "read_fail") /\ HasIdentity(st)) =>
             /\ st'.controller_disconnected = 1
             /\ ~Emitted(events', "find_ok") /\ ~Emitted(events', "find_fail")
             /\ st.telemetry_enabled # 0 =>
                  /\ events'[Len(events')] = "publish"
                  /\ shared'.telemetry_sequence = st.telemetry_sequence + 1
                  /\ shared'.controller_disconnected = 1
                  /\ shared'.controller_reconnected = 0 ]_vars
    /\ [][ st.controller_disconnected = 1 =>
             /\ (st'.controller_disconnected = 0 <=> Emitted(events', "find_ok"))
             /\ ~Emitted(events', "alert:Gas")
             /\ ~Emitted(events', "alert:Rudder")
             /\ ~Emitted(events', "read_ok")
             /\ st'.gas_alert_triggered = 0
             /\ st'.clutch_alert_triggered = 0
             /\ (shared' # shared => /\ Emitted(events', "find_ok")
                                     /\ shared'.controller_disconnected = 0) ]_vars

\* Still disconnected after a failed rediscovery attempt, the disconnect
\* frame being the last one published.
C9_Witness ==
    /\ st.controller_disconnected = 1
    /\ Emitted(events, "find_fail")
    /\ shared.controller_disconnected = 1
    /\ shared.telemetry_sequence = st.telemetry_sequence

\* C10: the frame published on rediscovery has controller_reconnected = 1,
\* no other frame has, and no frame has both controller_disconnected and
\* controller_reconnected set.
C10_ReconnectedOneShot ==
    /\ [](~(shared.controller_disconnected = 1 /\ shared.controller_reconnected = 1))
    /\ [][ shared'.telemetry_sequence # shared.telemetry_sequence =>
             /\ shared'.telemetry_sequence = shared.telemetry_sequence + 1
             /\ shared'.controller_reconnected = 1 <=> Rediscovery ]_vars
    /\ [][ (Rediscovery /\ st.telemetry_enabled # 0) =>
             /\ shared'.telemetry_sequence = shared.telemetry_sequence + 1
             /\ shared'.controller_reconnected = 1 ]_vars

\* A frame published after the reconnect frame.
C10_Witness ==
    /\ shared.last_reconnect_time_ms > 0
    /\ shared.controller_reconnected = 0
    /\ shared.controller_disconnected = 0

\* The ClutchState, GasState and EstimatorState fields, the thresholds and
\* the telemetry sequence number of a state.
DetectorState(s) ==
    << s.lastClutchValue, s.repeatingClutchCount,
       s.isRacing, s.peakGasInWindow, s.lastFullThrottleTime,
       s.lastGasActivityTime, s.lastGasAlertTime,
       s.best_estimate_percent, s.last_printed_estimate,
       s.estimate_window_peak_percent, s.estimate_window_start_time,
       s.last_estimate_print_time,
       s.axisMax, s.axisMargin, s.gasIdleMax, s.gasFullMin,
       s.gas_deadzone_in, s.gas_deadzone_out >>

\* C11: if the vendor id or the product id is 0, an iteration whose device
\* read fails leaves the clutch, gas and estimator state, the thresholds and
\* the latched controller_disconnected flag unchanged, publishes no frame
\* (shared memory and sequence number unchanged), makes no notifier call and
\* no rediscovery attempt (the only calls are the failed read and the
\* Sleep), and the thread stays in the main loop.
C11_ReadFailureSkipped ==
    [][ ( /\ (st.target_vendor_id = 0 \/ st.target_product_id = 0)
          /\ Emitted(events', "read_fail") )
        => /\ DetectorState(st') = DetectorState(st)
           /\ st'.controller_disconnected = st.controller_disconnected
           /\ st'.telemetry_sequence = st.telemetry_sequence
           /\ shared' = shared
           /\ events' = <<"read_fail", "sleep">>
           /\ pc' = "loop" ]_vars

\* C11 witness: a read failure was skipped in the middle of a clutch streak
\* of a run with telemetry on and only a vendor id configured.
C11_Witness ==
    /\ events = <<"read_fail", "sleep">>
    /\ st.target_vendor_id # 0 /\ st.target_product_id = 0
    /\ st.repeatingClutchCount > 0
    /\ st.telemetry_sequence > 0
    /\ st.controller_disconnected = 0

(***************************************************************************)
(* The telemetry consumer. Telemetry_Publish copies the struct into the    *)
(* mapped view with a plain assignment, *g_shared_st = *st: the copy is    *)
(* a sequence of stores, and a consumer in another process that has the    *)
(* view mapped can read it between any two of them. The stores are grouped *)
(* here into the two parts of the struct that TailFields divides; the      *)
(* order in which the parts are stored is not fixed by the source.         *)
(***************************************************************************)
\* The fields of PedalMonState declared from producer_loop_start_ms on.
TailFields ==
    { "telemetry_sequence",
      "gas_alert_triggered", "clutch_alert_triggered",
      "controller_disconnected", "controller_reconnected",
      "gas_estimate_decreased", "gas_auto_adjust_applied",
      "last_disconnect_time_ms", "last_reconnect_time_ms" }

\* The fields of PedalMonState declared before producer_loop_start_ms.
HeadFields == DOMAIN ZeroFrame \ TailFields

\* The mapped view after the stores of the fields in part.
StoreFields(mem, frame, part) ==
    [k \in DOMAIN mem |-> IF k \in part THEN frame[k] ELSE mem[k]]

\* The struct copy is under way: the view is not yet the frame published.
CopyPending == view.mem # shared

\* The stores of one part of the struct copy of Telemetry_Publish. When the
\* last part is stored the view holds the frame; before records the frame
\* the view held when the copy began.
CopyPart(part) ==
    /\ \E k \in part : view.mem[k] # shared[k]
    /\ LET mem == StoreFields(view.mem, shared, part) IN
         view' = [view EXCEPT !.mem = mem,
                              !.before = IF mem = shared THEN shared ELSE @]
    /\ events' = << >>
    /\ UNCHANGED <<st, shared, clock, pc, obs, inst, mutex, probe>>

CopyHead == CopyPart(HeadFields)

CopyTail == CopyPart(TailFields)

\* The consumer copies the mapped view (taken here in one piece).
ConsumerRead ==
    /\ view.snapshot # view.mem
    /\ view' = [view EXCEPT !.snapshot = view.mem]
    /\ events' = << >>
    /\ UNCHANGED <<st, shared, clock, pc, obs, inst, mutex, probe>>

\* Iterations of the main loop in the runs with a consumer.
MaxConsumerIterations == 3

\* A step of the main loop; Telemetry_Publish returns, and the thread goes
\* on, when the struct copy is complete.
ProducerStep ==
    /\ ~CopyPending
    /\ st.iLoop < MaxConsumerIterations
    /\ Next

NextConsumer ==
    \/ ProducerStep
    \/ CopyHead
    \/ CopyTail
    \/ ConsumerRead

SpecConsumer == Init /\ [][NextConsumer]_vars

\* C12: every frame a consumer reads from the mapped view, once a first
\* frame has been published, is a frame as it was published: the frame the
\* view held before the copy under way began, or the frame being published;
\* never a mixture of the fields of the two.
C12_FrameNeverTorn ==
    [][ (view'.snapshot # view.snapshot /\ view.before # ZeroFrame)
        => view'.snapshot \in {view.before, shared} ]_vars

\* Number of occurrences of e in seq.
Occurrences(seq, e) == Cardinality({i \in 1 .. Len(seq) : seq[i] = e})

\* C13: every step of the main loop publishes at most one frame; a step that
\* publishes one (tick, disconnect or reconnect) increases telemetry_sequence
\* by exactly 1 and the frame carries the new number; a step that publishes
\* none leaves the number and the shared memory unchanged; in particular the
\* reconnect reset does not set it back.
C13_SequenceIncrements ==
    [][ LET n == Occurrences(events', "publish") IN
          /\ n <= 1
          /\ st'.telemetry_sequence = st.telemetry_sequence + n
          /\ n = 1 => shared'.telemetry_sequence = st.telemetry_sequence + 1
          /\ n = 0 => shared' = shared ]_vars

\* C13 witness: the third frame of a run is the frame of a reconnect.
C13_Witness ==
    /\ Emitted(events, "find_ok")
    /\ Emitted(events, "publish")
    /\ st.telemetry_sequence = 3
    /\ shared.telemetry_sequence = 3
    /\ shared.controller_reconnected = 1

(***************************************************************************)
(* normalize_pedal_axis applied on its own.                                *)
(***************************************************************************)
\* Largest raw value of the lower range probed.
MaxProbeRaw == 1030

\* The raw values probed: the lower range, and the values around the 16-bit
\* maximum; with normalization enabled, those the axis can report.
ProbeRaws(enabled, axis_max) ==
    LET raws == (0 .. MaxProbeRaw) \cup {AxisMaxStd - 1, AxisMaxStd} IN
    IF enabled # 0 THEN {x \in raws : x <= axis_max} ELSE raws

\* The process itself is not running.
Stopped ==
    /\ st = StartupState(PlainOptions, 0)
    /\ shared = ZeroFrame
    /\ clock = 0
    /\ pc = "done"
    /\ events = << >>
    /\ obs = [lastDriftAlertAt |-> -1, driftAlerts |-> 0,
              samplesSinceAttach |-> 0, readAttempts |-> 0,
              windowMax |-> 0, estimateMax |-> 0]
    /\ view = [mem |-> ZeroFrame, before |-> ZeroFrame, snapshot |-> ZeroFrame]

InitNormalize ==
    /\ Stopped
    /\ inst = << >>
    /\ mutex = {}
    /\ \E enabled \in {0, 1}, axis_max \in {AxisMaxRaw, AxisMaxStd} :
        \E raw \in ProbeRaws(enabled, axis_max) :
            probe = [axis_normalization_enabled |-> enabled,
                     axis_max |-> axis_max,
                     raw_value |-> raw, value |-> raw, applied |-> 0]

\* normalize_pedal_axis is applied to the value obtained so far.
Normalize ==
    /\ probe.applied < 2
    /\ probe' = [probe EXCEPT
                    !.value = normalize_pedal_axis(
                                  probe.axis_normalization_enabled # 0,
                                  probe.value, probe.axis_max),
                    !.applied = @ + 1]
    /\ UNCHANGED <<st, shared, clock, pc, events, obs, view, inst, mutex>>

SpecNormalize == InitNormalize /\ [][Normalize]_vars

\* C14: with normalization disabled normalize_pedal_axis returns the raw
\* value, for every raw value; with normalization enabled, applying it twice
\* to a raw value in 0 .. axis_max with the same axis_max returns the raw
\* value.
C14_NormalizeIdentityInvolution ==
    /\ (probe.axis_normalization_enabled = 0 /\ probe.applied >= 1)
           => probe.value = probe.raw_value
    /\ (probe.axis_normalization_enabled # 0 /\ probe.applied = 2)
           => probe.value = probe.raw_value

\* C14 witness: the mirror of a raw value strictly inside the axis range has
\* been applied twice.
C14_Witness ==
    /\ probe.axis_normalization_enabled # 0
    /\ probe.applied = 2
    /\ probe.axis_max = AxisMaxRaw
    /\ probe.raw_value = 40
    /\ probe.value = 40

\* The configuration of scenario A: axisMax 1023, gas idle band 5 %
\* (gasIdleMax 51), margin 5 % (axisMargin 51), four repeats required.
ScenarioAConfig(s) ==
    /\ s.monitor_clutch # 0
    /\ s.axisMax = 1023 /\ s.gas_deadzone_in = 5 /\ s.gasIdleMax = 51
    /\ s.margin = 5 /\ s.axisMargin = 51
    /\ s.clutch_repeat_required = 4

\* The samples read since the attachment (which began with a fresh
\* ClutchState) are k ticks with the clutch at 40 and the gas idle, and
\* nothing else: each of the k samples extended the streak.
ScenarioATicksSoFar(k) ==
    /\ obs.samplesSinceAttach = k
    /\ st.repeatingClutchCount = k
    /\ st.lastClutchValue = (IF k = 0 THEN 0 ELSE 40)

\* C15 (scenario A): from a fresh ClutchState, with axisMax 1023, gas idle
\* band 5 %, margin 5 % and 4 repeats required, the first three consecutive
\* ticks with clutchValue 40 and gasValue <= 51 raise no clutch alert and
\* count 1, 2, 3; the fourth raises the alert, once, and leaves
\* repeatingClutchCount at 0.
C15_ScenarioA ==
    [][ \A k \in 0 .. 3 :
          ( /\ ScenarioAConfig(st)
            /\ ScenarioATicksSoFar(k)
            /\ Emitted(events', "read_ok")
            /\ st'.clutchValue = 40
            /\ st'.gasValue <= 51 )
          => IF k < 3
             THEN /\ ~Emitted(events', "alert:Rudder")
                  /\ st'.clutch_alert_triggered = 0
                  /\ st'.repeatingClutchCount = k + 1
             ELSE /\ Occurrences(events', "alert:Rudder") = 1
                  /\ st'.clutch_alert_triggered = 1
                  /\ st'.repeatingClutchCount = 0 ]_vars

\* C15 witness: the fourth tick of a run, all four with the clutch at 40 and
\* the gas idle, has raised the clutch alert.
C15_Witness ==
    /\ ScenarioAConfig(st)
    /\ obs.readAttempts = 4
    /\ obs.samplesSinceAttach = 4
    /\ st.clutchValue = 40 /\ st.gasValue <= 51
    /\ Emitted(events, "alert:Rudder")
    /\ st.repeatingClutchCount = 0

(***************************************************************************)
(* Scenario B: a run with the default gas settings on the 0..1023 axis in  *)
(* which the gas pedal never reaches the full-throttle threshold.          *)
(***************************************************************************)
\* Iteration limit of the runs of scenario B.
MaxScenarioTicks == 34

\* --monitor-gas --joystick 0 --flags 266 --iterations N: gas idle band 5 %,
\* full throttle 93 %, window 30 s, cooldown 60 s, timeout 10 s, minimum
\* usage 20 %.
ScenarioBOptions ==
    [DefaultOptions EXCEPT
        !.monitor_gas = 1, !.joy_ID = 0, !.j = 1, !.joy_Flags = 266,
        !.iterations = MaxScenarioTicks]

\* Value of the tick counter (ms) when the run of scenario B starts.
ScenarioBStartTimes == {28000, 90000}

\* Gas positions of scenario B (thousandths): 0, 214 and 500 on the axis.
ScenarioBLevels == {0, 210, 489}

InitScenarioB ==
    \E t0 \in ScenarioBStartTimes :
        /\ ParseCommandLineAccepts(ScenarioBOptions)
        /\ st = StartupState(ScenarioBOptions, t0)
        /\ shared = ZeroFrame
        /\ clock = t0
        /\ pc = "loop"
        /\ events = << >>
        /\ obs = [lastDriftAlertAt |-> -1, driftAlerts |-> 0,
                  samplesSinceAttach |-> 0, readAttempts |-> 0,
                  windowMax |-> 0, estimateMax |-> 0]
        /\ view = [mem |-> ZeroFrame, before |-> ZeroFrame,
                   snapshot |-> ZeroFrame]
        /\ inst = << >>
        /\ mutex = {}
        /\ probe = << >>

\* A loop iteration of scenario B: the clutch is at rest.
ScenarioBTick ==
    \E level \in ScenarioBLevels :
        TickOn(RawOf(st, level), RawOf(st, 0))

SpecScenarioB == InitScenarioB /\ [][ScenarioBTick]_vars

ScenarioBConfig(s) ==
    /\ s.monitor_gas # 0
    /\ s.axisMax = 1023
    /\ s.gas_deadzone_out = 93 /\ s.gasFullMin = 951
    /\ s.gas_window = 30 /\ s.gas_cooldown = 60
    /\ s.gas_min_usage_percent = 20

\* The tick 31 seconds after racing began, racing having gone on without
\* the gas reaching the full-throttle threshold, with a peak of 500 so far.
ScenarioBTick31 ==
    /\ ScenarioBConfig(st)
    /\ Emitted(events', "read_ok")
    /\ st'.isRacing
    /\ st'.currentTime - st'.lastFullThrottleTime = 31 * MsPerSecond
    /\ st'.peakGasInWindow = 500

\* The drift alert is raised, once, with percentReached = 500 * 100 / 1023
\* truncated, which is 48.
ScenarioBAlert ==
    /\ Occurrences(events', "alert:Gas") = 1
    /\ st'.gas_alert_triggered = 1
    /\ obs'.lastDriftAlertAt = st'.currentTime
    /\ st'.percentReached = (500 * 100) \div 1023
    /\ st'.percentReached = 48

\* No drift alert is raised during the first 30 seconds after racing began.
ScenarioBQuietWindow ==
    ( /\ ScenarioBConfig(st)
      /\ Emitted(events', "read_ok")
      /\ st'.isRacing
      /\ st'.currentTime - st'.lastFullThrottleTime <= 30 * MsPerSecond )
    => ~Emitted(events', "alert:Gas")

\* C16 (scenario B), as claimed: with axisMax 1023, full throttle at 93 %
\* (951), a 30 s window, minimum usage 20 % and the default cooldown, while
\* racing goes on without the gas reaching 951, no drift alert is raised
\* during the first 30 seconds after racing began, and the tick 31 seconds
\* after it began, the peak so far being 500, raises the one drift alert,
\* with percentReached 48.
C16_ScenarioB ==
    [][ /\ ScenarioBQuietWindow
        /\ ScenarioBTick31 => ScenarioBAlert ]_vars

\* C16 (scenario B), amended: the same, provided the alert cooldown has
\* passed at the tick 31 seconds after racing began: the tick counter is
\* more than gas_cooldown (60 s) beyond lastGasAlertTime, which is 0 until
\* the first alert of the run. If it has not passed, that tick raises no
\* alert.
C16_ScenarioBAfterCooldown ==
    [][ /\ ScenarioBQuietWindow
        /\ ScenarioBTick31
             => IF st'.currentTime - st.lastGasAlertTime > st.gas_cooldown_ms
                THEN ScenarioBAlert
                ELSE ~Emitted(events', "alert:Gas") ]_vars

\* C16 witness: racing began after the start of the run, and the tick 31
\* seconds later, with a peak of 500, has raised the one drift alert.
C16_Witness ==
    /\ ScenarioBConfig(st)
    /\ st.isRacing
    /\ st.lastFullThrottleTime = 91000
    /\ st.currentTime - st.lastFullThrottleTime = 31000
    /\ st.peakGasInWindow = 500
    /\ Emitted(events, "alert:Gas")
    /\ st.percentReached = 48
    /\ obs.driftAlerts = 1

(***************************************************************************)
(* Startup of two monitor processes started at the same time: main() from  *)
(* ParseCommandLine to the main loop, the single-instance mutex, and the   *)
(* exit. inst[i] is the position of process i with its command line o,     *)
(* its loop counter, the device calls it has made (FindJoystick,           *)
(* joyGetDevCaps, joyGetPosEx), the frames it has published, whether it    *)
(* has notified the user, and its exit code (-1 while running). mutex is   *)
(* the set of processes holding a handle to the named mutex: the object    *)
(* exists while a handle is open.                                          *)
(***************************************************************************)
Instances == {1, 2}

EXIT_SUCCESS == 0
EXIT_FAILURE == 1

\* Samples a process started with --iterations 0 reads in the runs checked.
MaxStartupPolls == 2

\* The command lines the two processes are started with.
StartupCommandLines ==
    { [PlainOptions EXCEPT !.iterations = 1],
      [GasOptions EXCEPT !.iterations = 2],
      [MixedOptions EXCEPT !.iterations = 1],
      ForeverOptions }
      \cup RejectedOptions

InitStartup ==
    /\ Stopped
    /\ probe = << >>
    /\ mutex = {}
    /\ \E o1 \in StartupCommandLines, o2 \in StartupCommandLines :
         inst = [i \in Instances |->
                   [pc |-> "parse", o |-> IF i = 1 THEN o1 ELSE o2,
                    iLoop |-> 0, deviceCalls |-> 0, frames |-> 0,
                    notified |-> FALSE, exitCode |-> -1]]

StartupUnchanged == UNCHANGED <<st, shared, clock, pc, events, obs, view, probe>>

\* ParseCommandLine: a command line that fails the validation ends the
\* process with EXIT_FAILURE.
StartupParse(i) ==
    /\ inst[i].pc = "parse"
    /\ inst' = [inst EXCEPT ![i] =
                  IF ParseCommandLineAccepts(inst[i].o)
                  THEN [@ EXCEPT !.pc = "guard"]
                  ELSE [@ EXCEPT !.pc = "exited", !.exitCode = EXIT_FAILURE]]
    /\ UNCHANGED mutex
    /\ StartupUnchanged

\* The guard without the ERROR_ALREADY_EXISTS test.
AcquireGuard_Unchecked(i) ==
    /\ inst[i].pc = "guard"
    /\ inst' = [inst EXCEPT ![i].pc = "discover"]
    /\ mutex' = mutex \cup {i}
    /\ StartupUnchanged

\* CreateMutexA(NULL, TRUE, name): the call creates the mutex, or opens the
\* existing one and reports ERROR_ALREADY_EXISTS.
AcquireGuard(i) ==
    /\ inst[i].pc = "guard"
    /\ inst' = [inst EXCEPT ![i].pc =
                  IF mutex = {} THEN "discover" ELSE "refused"]
    /\ mutex' = mutex \cup {i}
    /\ StartupUnchanged

\* The guard is held by another process: ALERT, CloseHandle, exit.
RefuseSecondInstance(i) ==
    /\ inst[i].pc = "refused"
    /\ inst' = [inst EXCEPT ![i] =
                  [@ EXCEPT !.pc = "exited", !.notified = TRUE,
                            !.exitCode = EXIT_FAILURE]]
    /\ mutex' = mutex \ {i}
    /\ StartupUnchanged

\* FindJoystick when a VID/PID pair is given, joyGetDevCaps, the thresholds
\* and Telemetry_Init.
DiscoverDevice(i) ==
    /\ inst[i].pc = "discover"
    /\ inst' = [inst EXCEPT ![i] =
                  [@ EXCEPT !.pc = "loop",
                            !.deviceCalls =
                                @ + (IF HasIdentity(inst[i].o) THEN 2 ELSE 1)]]
    /\ UNCHANGED mutex
    /\ StartupUnchanged

\* One iteration of the main loop: a joyGetPosEx call and, for a processed
\* sample with telemetry on, a frame.
Poll(i) ==
    /\ inst[i].pc = "loop"
    /\ LoopContinues([iterations |-> inst[i].o.iterations,
                      iLoop |-> inst[i].iLoop])
    /\ inst[i].o.iterations = 0 => inst[i].deviceCalls < MaxStartupPolls + 2
    /\ \E readOk \in BOOLEAN :
         inst' = [inst EXCEPT ![i] =
                    [@ EXCEPT !.iLoop = IF inst[i].o.iterations = 0
                                        THEN @ ELSE @ + 1,
                              !.deviceCalls = @ + 1,
                              !.frames =
                                  IF inst[i].o.telemetry_enabled # 0
                                     /\ (readOk \/ HasIdentity(inst[i].o))
                                  THEN @ + 1 ELSE @]]
    /\ UNCHANGED mutex
    /\ StartupUnchanged

\* The loop condition fails: Telemetry_Shutdown, ReleaseMutex, CloseHandle,
\* return EXIT_SUCCESS.
ExitLoop(i) ==
    /\ inst[i].pc = "loop"
    /\ ~LoopContinues([iterations |-> inst[i].o.iterations,
                       iLoop |-> inst[i].iLoop])
    /\ inst' = [inst EXCEPT ![i] =
                  [@ EXCEPT !.pc = "exited", !.exitCode = EXIT_SUCCESS]]
    /\ mutex' = mutex \ {i}
    /\ StartupUnchanged

NextStartup ==
    \E i \in Instances :
        \/ StartupParse(i)
        \/ AcquireGuard(i)
        \/ RefuseSecondInstance(i)
        \/ DiscoverDevice(i)
        \/ Poll(i)
        \/ ExitLoop(i)

SpecStartup == InitStartup /\ [][NextStartup]_vars

\* An option out of its range, or options inconsistent with each other: a
\* command line the validation of ParseCommandLine refuses, or a gas idle
\* band that is not below the full-throttle threshold.
ConfigError(o) ==
    \/ ~ParseCommandLineAccepts(o)
    \/ o.gas_deadzone_in >= o.gas_deadzone_out

\* A process that has not got past ParseCommandLine: it has not touched the
\* mutex or the device nor run an iteration, and if it has ended, it has
\* ended with a non-zero exit code.
RejectedAtParse(i) ==
    /\ inst[i].pc \in {"parse", "exited"}
    /\ i \notin mutex
    /\ inst[i].deviceCalls = 0 /\ inst[i].iLoop = 0 /\ inst[i].frames = 0
    /\ inst[i].pc = "exited" => inst[i].exitCode # EXIT_SUCCESS

\* C17: a process started with an out-of-range or inconsistent option is
\* rejected with a non-zero exit code before the single-instance guard is
\* taken and before any device enumeration or read, and runs no iteration
\* of the main loop.
C17_ConfigErrorRejectedFirst ==
    \A i \in Instances : ConfigError(inst[i].o) => RejectedAtParse(i)

\* The part of C17 that holds: the command lines the validation of
\* ParseCommandLine refuses are rejected before the guard and the device.
RefusedBeforeGuard ==
    \A i \in Instances :
        ~ParseCommandLineAccepts(inst[i].o) => RejectedAtParse(i)

\* A process past the single-instance guard: discovering the device or in
\* the main loop.
PastGuard(i) == inst[i].pc \in {"discover", "loop"}

\* A process that has entered the main loop at some time.
EnteredLoop(i) == inst[i].pc = "loop" \/ inst[i].exitCode = EXIT_SUCCESS

\* A process that found the guard held.
FoundGuardHeld(i) == inst[i].pc = "refused" \/ inst[i].notified

\* The process that found the guard held makes no device call, runs no
\* iteration and publishes no frame, and ends notified with a non-zero exit
\* code.
RefusedCleanly(i) ==
    /\ inst[i].deviceCalls = 0 /\ inst[i].iLoop = 0 /\ inst[i].frames = 0
    /\ inst[i].pc \in {"refused", "exited"}
    /\ inst[i].pc = "exited" =>
         inst[i].notified /\ inst[i].exitCode = EXIT_FAILURE

\* C18 as stated: of two processes started concurrently at most one ever
\* enters the main loop, and the one that finds the guard held notifies the
\* user and exits non-zero without a device call or a frame.
C18_AtMostOneEverPolls ==
    /\ Cardinality({i \in Instances : EnteredLoop(i)}) <= 1
    /\ \A i \in Instances : FoundGuardHeld(i) => RefusedCleanly(i)

\* C18 amended: at any time at most one process is past the guard, a process
\* is past the guard only while it holds a handle to the mutex and a process
\* finds the guard held only while the other one holds it or has run; the
\* one that finds the guard held notifies the user and exits non-zero
\* without a device call or a frame.
C18_GuardMutualExclusion ==
    /\ Cardinality({i \in Instances : PastGuard(i)}) <= 1
    /\ \A i \in Instances : PastGuard(i) => i \in mutex
    /\ \A i \in Instances :
         FoundGuardHeld(i) =>
           /\ RefusedCleanly(i)
           /\ \E j \in Instances \ {i} : PastGuard(j) \/ EnteredLoop(j)

\* One process was refused and has exited while the other one polls.
C18_Witness ==
    \E i \in Instances, j \in Instances :
        /\ i # j
        /\ inst[i].pc = "exited" /\ inst[i].notified
        /\ inst[i].exitCode = EXIT_FAILURE
        /\ inst[j].pc = "loop" /\ inst[j].deviceCalls > 1
        /\ mutex = {j}

(***************************************************************************)
(* The control flow of the main loop alone, with the tick counter left     *)
(* out: the loop condition and its counter, the device read of each        *)
(* iteration, the reconnect loop, and the return from main. The contents   *)
(* of the samples and the times play no part in it.                        *)
(***************************************************************************)
\* --iterations 0..MaxIterations on each accepted command line.
LoopCommandLines ==
    { [o EXCEPT !.iterations = n] :
        o \in {c \in CommandLines : ParseCommandLineAccepts(c)},
        n \in 0..MaxIterations }

InitLoop ==
    /\ \E o \in LoopCommandLines : st = StartupState(o, 0)
    /\ shared = ZeroFrame
    /\ clock = 0
    /\ pc = "loop"
    /\ events = << >>
    /\ obs = [lastDriftAlertAt |-> -1, driftAlerts |-> 0,
              samplesSinceAttach |-> 0, readAttempts |-> 0,
              windowMax |-> 0, estimateMax |-> 0]
    /\ view = [mem |-> ZeroFrame, before |-> ZeroFrame, snapshot |-> ZeroFrame]
    /\ inst = << >>
    /\ mutex = {}
    /\ probe = << >>

LoopUnchanged == UNCHANGED <<shared, clock, view, inst, mutex, probe>>

\* The loop condition holds and joyGetPosEx is called. A run without an
\* iteration limit is followed for MaxIterations reads.
LoopRead ==
    /\ pc = "loop"
    /\ LoopContinues(st)
    /\ st.iterations = 0 => obs.readAttempts < MaxIterations
    /\ st' = LoopEnter(st)
    /\ obs' = [obs EXCEPT !.readAttempts = @ + 1]

\* The read succeeds: the sample is processed, then Sleep(sleep_Time).
LoopSample ==
    /\ LoopRead
    /\ events' = <<"read_ok", "sleep">>
    /\ pc' = "loop"
    /\ LoopUnchanged

\* The read fails with no VID/PID pair: the frame is skipped.
LoopReadFailSkip ==
    /\ LoopRead
    /\ ~HasIdentity(st)
    /\ events' = <<"read_fail", "sleep">>
    /\ pc' = "loop"
    /\ LoopUnchanged

\* The read fails with a VID/PID pair: the reconnect loop is entered.
LoopDisconnect ==
    /\ LoopRead
    /\ HasIdentity(st)
    /\ events' = <<"read_fail", "alert:disconnected">>
    /\ pc' = "reconnect"
    /\ LoopUnchanged

\* Sleep(60000) and a FindJoystick that returns -1.
LoopRediscoverFail ==
    /\ pc = "reconnect"
    /\ events' = <<"sleep60", "find_fail", "alert:not_found">>
    /\ UNCHANGED <<st, pc, obs>>
    /\ LoopUnchanged

\* Mutation: the reconnect loop ends the run when the iteration limit has
\* been reached.
LoopRediscoverSuccess_ChecksLimit ==
    /\ pc = "reconnect"
    /\ events' = <<"sleep60", "find_ok", "alert:found">>
    /\ pc' = IF LoopContinues(st) THEN "loop" ELSE "done"
    /\ UNCHANGED <<st, obs>>
    /\ LoopUnchanged

\* Sleep(60000) and a FindJoystick that finds the device: break, continue.
LoopRediscoverSuccess ==
    /\ pc = "reconnect"
    /\ events' = <<"sleep60", "find_ok", "alert:found">>
    /\ pc' = "loop"
    /\ UNCHANGED <<st, obs>>
    /\ LoopUnchanged

\* The loop condition fails: Telemetry_Shutdown, ReleaseMutex, CloseHandle
\* and return EXIT_SUCCESS.
LoopFinish ==
    /\ pc = "loop"
    /\ ~LoopContinues(st)
    /\ st' = [st EXCEPT !.iLoop = @ + 1]
    /\ events' = <<"exit">>
    /\ pc' = "done"
    /\ UNCHANGED obs
    /\ LoopUnchanged

NextLoop ==
    \/ LoopSample
    \/ LoopReadFailSkip
    \/ LoopDisconnect
    \/ LoopRediscoverFail
    \/ LoopRediscoverSuccess
    \/ LoopFinish

\* joyGetPosEx and Sleep return, so an iteration that can start is made and
\* the return is reached; every reconnect loop entered finds the device in
\* the end.
LoopFairness ==
    /\ WF_vars(LoopSample \/ LoopReadFailSkip \/ LoopDisconnect)
    /\ WF_vars(LoopFinish)
    /\ WF_vars(LoopRediscoverSuccess)

SpecLoop == InitLoop /\ [][NextLoop]_vars /\ LoopFairness

\* C19: a run with --iterations N > 0 ends, after exactly N calls of
\* joyGetPosEx (an iteration that went through the reconnect loop made one
\* of them), with the return from main, provided each reconnect loop
\* entered finds the device in the end; a run with --iterations 0 never
\* returns.
C19_FiniteRunTerminates ==
    /\ (st.iterations > 0) ~> (pc = "done")
    /\ [](pc = "done" =>
            /\ st.iterations > 0
            /\ obs.readAttempts = st.iterations
            /\ events = <<"exit">>)
    /\ [](st.iterations > 0 => obs.readAttempts <= st.iterations)

\* A run of three iterations with a VID/PID pair has returned after three
\* reads.
C19_Witness ==
    /\ pc = "done"
    /\ HasIdentity(st)
    /\ st.iterations = 3
    /\ obs.readAttempts = 3

\* The count of C19 in the full loop: at the return the loop has made
\* exactly --iterations calls of joyGetPosEx, and a run without an iteration
\* limit does not return.
ReadAttemptsAtExit ==
    /\ pc = "done" => st.iterations > 0 /\ obs.readAttempts = st.iterations
    /\ st.iterations > 0 => obs.readAttempts <= st.iterations

\* A step that processes a sample with gas monitoring on and the gas pedal
\* out of the idle band.
GasActiveTick ==
    /\ Emitted(events', "read_ok")
    /\ st.monitor_gas # 0
    /\ st'.gasValue > st.gasIdleMax

\* C20: on a processed sample with gasValue > gasIdleMax while isRacing is
\* false, isRacing becomes true, lastFullThrottleTime is the time of the
\* sample, the drift window's peak starts from 0 (after the drift update it
\* is this sample's value, or 0 when the sample is a full throttle) and,
\* with estimation on, the estimation window starts at the time of the
\* sample with a peak counted from 0; and every processed sample with
\* gasValue > gasIdleMax sets lastGasActivityTime to its time.
C20_IdleToRacing ==
    [][ GasActiveTick =>
          /\ st'.currentTime = clock
          /\ st'.isRacing
          /\ st'.lastGasActivityTime = st'.currentTime
          /\ st'.gasIdleMax = st.gasIdleMax
          /\ ~st.isRacing =>
               /\ st'.lastFullThrottleTime = st'.currentTime
               /\ st'.peakGasInWindow =
                    IF st'.gasValue >= st.gasFullMin THEN 0 ELSE st'.gasValue
               /\ st.estimate_gas_deadzone_enabled # 0 =>
                    /\ st'.estimate_window_start_time = st'.currentTime
                    /\ st'.estimate_window_peak_percent =
                         IF st.gas_cooldown_ms > 0
                         THEN (st'.gasValue * 100) \div st.axisMax
                         ELSE 0 ]_vars

\* A racing window opened by a partial press after an earlier racing
\* session: the window is anchored at this sample although the sample is no
\* full throttle, and both peaks are the sample's own.
C20_Witness ==
    /\ Emitted(events, "read_ok")
    /\ st.monitor_gas # 0
    /\ st.estimate_gas_deadzone_enabled # 0
    /\ st.isRacing
    /\ st.gasValue > st.gasIdleMax
    /\ st.gasValue < st.gasFullMin
    /\ st.lastFullThrottleTime = st.currentTime
    /\ st.lastGasActivityTime = st.currentTime
    /\ st.peakGasInWindow = st.gasValue
    /\ st.estimate_window_start_time = st.currentTime
    /\ st.estimate_window_peak_percent = (st.gasValue * 100) \div st.axisMax
    /\ st.lastGasAlertTime > 0

\* A step that processes a sample with gas monitoring on.
GasTick == Emitted(events', "read_ok") /\ st.monitor_gas # 0

\* The inactivity timeout has passed at the sample of this step.
GasTimedOut ==
    /\ st'.gasValue <= st.gasIdleMax
    /\ st'.currentTime - st.lastGasActivityTime > st.gas_timeout_ms

\* C21: a processed sample taken while Racing ends Idle exactly when its
\* gasValue <= gasIdleMax and more than gas_timeout has passed since
\* lastGasActivityTime; that transition restarts the estimation window when
\* estimation is on and leaves peakGasInWindow, lastFullThrottleTime and
\* lastGasAlertTime as they were.
C21_RacingToIdle ==
    [][ (GasTick /\ st.isRacing) =>
          /\ ~st'.isRacing <=> GasTimedOut
          /\ ~st'.isRacing =>
               /\ st'.peakGasInWindow = st.peakGasInWindow
               /\ st'.lastFullThrottleTime = st.lastFullThrottleTime
               /\ st'.lastGasAlertTime = st.lastGasAlertTime
               /\ st'.lastGasActivityTime = st.lastGasActivityTime
               /\ IF st.estimate_gas_deadzone_enabled # 0
                  THEN /\ st'.estimate_window_start_time = st'.currentTime
                       /\ st'.estimate_window_peak_percent = 0
                  ELSE /\ st'.estimate_window_start_time =
                              st.estimate_window_start_time
                       /\ st'.estimate_window_peak_percent =
                              st.estimate_window_peak_percent ]_vars

\* The sample that paused a racing session: the estimation window starts at
\* it while the drift window still has the session's peak and anchor.
C21_Witness ==
    /\ Emitted(events, "read_ok")
    /\ st.monitor_gas # 0 /\ st.estimate_gas_deadzone_enabled # 0
    /\ ~st.isRacing
    /\ st.gasValue <= st.gasIdleMax
    /\ st.currentTime - st.lastGasActivityTime > st.gas_timeout_ms
    /\ st.estimate_window_start_time = st.currentTime
    /\ st.estimate_window_peak_percent = 0
    /\ st.peakGasInWindow > 0
    /\ st.lastFullThrottleTime < st.lastGasActivityTime

\* C22: with gas monitoring on, after every processed sample isRacing
\* implies that no more than gas_timeout has passed between
\* lastGasActivityTime and the sample.
C22_RacingWithinTimeout ==
    [][ GasTick =>
          (st'.isRacing =>
             st'.currentTime - st'.lastGasActivityTime <= st.gas_timeout_ms)
      ]_vars

\* A racing session one sample before its timeout: the pedal has been in
\* the idle band for exactly gas_timeout.
C22_Witness ==
    /\ Emitted(events, "read_ok")
    /\ st.monitor_gas # 0
    /\ st.isRacing
    /\ st.gasValue <= st.gasIdleMax
    /\ st.currentTime - st.lastGasActivityTime = st.gas_timeout_ms

\* C23: a gas drift alert fires only on a processed sample after whose
\* activity update isRacing is true, whose gasValue is below gasFullMin and
\* which comes more than gas_window after lastFullThrottleTime; the sample
\* neither opens a racing window nor is a full throttle, so the anchor it is
\* measured against is the one from before it.
C23_DriftAlertOnlyWhenDue ==
    [][ Emitted(events', "alert:Gas") =>
          /\ GasTick
          /\ st'.gas_alert_triggered = 1
          /\ st.isRacing /\ st'.isRacing
          /\ st'.gasValue < st.gasFullMin
          /\ st'.lastFullThrottleTime = st.lastFullThrottleTime
          /\ st'.currentTime - st'.lastFullThrottleTime > st.gas_window_ms
      ]_vars

\* A drift alert on a sample in the idle band, in a session that has not
\* timed out yet.
C23_Witness ==
    /\ Emitted(events, "alert:Gas")
    /\ st.gas_alert_triggered = 1
    /\ st.isRacing
    /\ st.gasValue <= st.gasIdleMax
    /\ st.gasValue < st.gasFullMin
    /\ st.currentTime - st.lastFullThrottleTime > st.gas_window_ms

\* C24: after every processed sample that leaves the tracker Racing, a
\* sample with gasValue >= gasFullMin has set lastFullThrottleTime to its
\* time and peakGasInWindow to 0, and any other sample leaves
\* peakGasInWindow at the largest gasValue of the samples since the last
\* full throttle or since the sample that opened the racing window, itself
\* included; the percentage a drift evaluation reports is that of this
\* maximum.
C24_PeakIsWindowMaximum ==
    [][ (GasTick /\ st'.isRacing) =>
          IF st'.gasValue >= st.gasFullMin
          THEN /\ st'.lastFullThrottleTime = st'.currentTime
               /\ st'.peakGasInWindow = 0
          ELSE /\ st'.peakGasInWindow = obs'.windowMax
               /\ st'.peakGasInWindow >= st'.gasValue
               /\ Emitted(events', "alert:Gas") =>
                    st'.percentReached =
                        (obs'.windowMax * 100) \div st.axisMax ]_vars

\* A drift alert whose window peak is an earlier sample's value, above the
\* value of the sample that raised the alert.
C24_Witness ==
    /\ Emitted(events, "alert:Gas")
    /\ st.isRacing
    /\ st.gasValue > 0
    /\ st.peakGasInWindow > st.gasValue
    /\ obs.windowMax = st.peakGasInWindow
    /\ st.percentReached = (st.peakGasInWindow * 100) \div st.axisMax

\* A step that processes a sample in a racing session without reaching full
\* throttle.
RacingBelowFullTick ==
    /\ GasTick
    /\ st.isRacing /\ st'.isRacing
    /\ st'.gasValue < st.gasFullMin

\* C25: a drift alert sets lastGasAlertTime to the time of its sample and
\* the gas_alert_triggered flag, and leaves lastFullThrottleTime and the
\* peak of the window (the largest of the peak before and the sample) as
\* they are; and in a racing window in which an alert has fired, while full
\* throttle is not reached and the session stays Racing, the next alert
\* fires on the first sample more than gas_cooldown after the last one,
\* against the same lastFullThrottleTime.
C25_AlertKeepsWindow ==
    [][ /\ Emitted(events', "alert:Gas") =>
             /\ st'.lastGasAlertTime = st'.currentTime
             /\ st'.gas_alert_triggered = 1
             /\ st'.lastFullThrottleTime = st.lastFullThrottleTime
             /\ st'.peakGasInWindow =
                  IF st'.gasValue > st.peakGasInWindow
                  THEN st'.gasValue ELSE st.peakGasInWindow
             /\ st'.lastGasActivityTime =
                  IF st'.gasValue > st.gasIdleMax
                  THEN st'.currentTime ELSE st.lastGasActivityTime
        /\ (RacingBelowFullTick
            /\ st.lastGasAlertTime > st.lastFullThrottleTime) =>
             /\ st'.lastFullThrottleTime = st.lastFullThrottleTime
             /\ Emitted(events', "alert:Gas") <=>
                  st'.currentTime - st.lastGasAlertTime > st.gas_cooldown_ms
      ]_vars

\* The second alert of a run, raised more than gas_window and gas_cooldown
\* after the full throttle it is measured against.
C25_Witness ==
    /\ Emitted(events, "alert:Gas")
    /\ obs.driftAlerts = 2
    /\ st.isRacing
    /\ st.lastGasAlertTime = st.currentTime
    /\ st.currentTime - st.lastFullThrottleTime >
           st.gas_window_ms + st.gas_cooldown_ms
    /\ st.peakGasInWindow > 0

\* C26: whenever a drift alert fires, the percentage it reports is strictly
\* below the full-throttle percent gas_deadzone_out in force at the alert,
\* and the peak it is computed from is below gasFullMin.
C26_AlertBelowFullThrottle ==
    [][ Emitted(events', "alert:Gas") =>
          /\ st'.percentReached < st.gas_deadzone_out
          /\ st'.peakGasInWindow < st.gasFullMin ]_vars

\* A step that processes a sample with estimation on and leaves the tracker
\* Racing.
EstimatorTick ==
    /\ GasTick
    /\ st.estimate_gas_deadzone_enabled # 0
    /\ st'.isRacing

\* C27: on a Racing sample with estimation on, when gas_cooldown has passed
\* since the estimation window was opened, best_estimate_percent becomes
\* the window's peak iff the peak is >= gas_min_usage_percent and below the
\* best estimate, and is unchanged otherwise, and a new window starts at
\* the sample with a peak of 0; on the other Racing samples the best
\* estimate and the start of the window are left alone. The window's peak
\* is the largest gasValue*100/axisMax of its samples out of the idle band.
C27_EstimatorWindowClose ==
    [][ EstimatorTick =>
          LET peak == EstimateWindowSoFar(st, st', obs.estimateMax) IN
          IF EstimateWindowCloses(st, st')
          THEN /\ st'.best_estimate_percent =
                    IF peak >= st.gas_min_usage_percent
                       /\ peak < st.best_estimate_percent
                    THEN peak ELSE st.best_estimate_percent
               /\ st'.estimate_window_start_time = st'.currentTime
               /\ st'.estimate_window_peak_percent = 0
          ELSE /\ st'.best_estimate_percent = st.best_estimate_percent
               /\ st'.estimate_window_peak_percent = peak
               /\ st'.estimate_window_start_time =
                    IF st.isRacing THEN st.estimate_window_start_time
                    ELSE st'.currentTime ]_vars

\* A window closed by a sample in the idle band, with a peak equal to
\* gas_min_usage_percent taken from an earlier sample: the best estimate is
\* that peak and a new window has started.
C27_Witness ==
    /\ Emitted(events, "read_ok")
    /\ st.estimate_gas_deadzone_enabled # 0
    /\ st.isRacing
    /\ st.gasValue <= st.gasIdleMax
    /\ st.best_estimate_percent = st.gas_min_usage_percent
    /\ st.gas_estimate_decreased = 1
    /\ st.estimate_window_start_time = st.currentTime
    /\ st.estimate_window_peak_percent = 0

\* A loop iteration: a read that succeeded or failed.
LoopIteration ==
    Emitted(events', "read_ok") \/ Emitted(events', "read_fail")

\* C28: on every iteration that ends with isRacing false, or that runs with
\* estimation off, best_estimate_percent, last_printed_estimate,
\* gas_deadzone_out and gasFullMin are unchanged and neither
\* gas_estimate_decreased nor gas_auto_adjust_applied is set; a sample
\* taken while Idle that leaves the tracker Idle does not touch the
\* estimation window either.
C28_EstimatorOnlyWhileRacing ==
    [][ (LoopIteration
         /\ (~st'.isRacing \/ st.estimate_gas_deadzone_enabled = 0)) =>
          /\ st'.best_estimate_percent = st.best_estimate_percent
          /\ st'.last_printed_estimate = st.last_printed_estimate
          /\ st'.last_estimate_print_time = st.last_estimate_print_time
          /\ st'.gas_deadzone_out = st.gas_deadzone_out
          /\ st'.gasFullMin = st.gasFullMin
          /\ st'.gas_estimate_decreased = 0
          /\ st'.gas_auto_adjust_applied = 0
          /\ ~Emitted(events', "alert:estimate")
          /\ (~st.isRacing \/ st.estimate_gas_deadzone_enabled = 0) =>
               /\ st'.estimate_window_start_time =
                      st.estimate_window_start_time
               /\ st'.estimate_window_peak_percent =
                      st.estimate_window_peak_percent ]_vars

\* An Idle sample, more than gas_cooldown after the pause that opened the
\* estimation window, in a run whose estimate has been lowered and applied
\* to gas_deadzone_out.
C28_Witness ==
    /\ Emitted(events, "read_ok")
    /\ st.monitor_gas # 0 /\ st.estimate_gas_deadzone_enabled # 0
    /\ ~st.isRacing
    /\ st.currentTime - st.estimate_window_start_time >= st.gas_cooldown_ms
    /\ st.best_estimate_percent < 100
    /\ st.gas_deadzone_out = st.best_estimate_percent
    /\ st.gas_estimate_decreased = 0
    /\ st.gas_auto_adjust_applied = 0

\* C29: last_printed_estimate equals best_estimate_percent after every
\* step, and an iteration sets gas_estimate_decreased and notifies the new
\* estimate exactly when it lowers best_estimate_percent, recording the
\* time of the sample as the time of the notification: the rate limit of
\* the notification never holds one back.
C29_EstimateAlwaysNotified ==
    /\ [](st.last_printed_estimate = st.best_estimate_percent)
    /\ [][ LoopIteration =>
             /\ (st'.best_estimate_percent < st.best_estimate_percent)
                  <=> Emitted(events', "alert:estimate")
             /\ Emitted(events', "alert:estimate")
                  <=> st'.gas_estimate_decreased = 1
             /\ st'.best_estimate_percent <= st.best_estimate_percent
             /\ Emitted(events', "alert:estimate") =>
                  /\ st'.last_estimate_print_time = st'.currentTime
                  /\ st'.currentTime - st.last_estimate_print_time
                        >= st.gas_cooldown_ms ]_vars

\* A notification of an estimate lowered for the second time: the first one
\* was applied to gas_deadzone_out, this one is below it.
C29_Witness ==
    /\ Emitted(events, "alert:estimate")
    /\ st.gas_estimate_decreased = 1
    /\ st.last_printed_estimate = st.best_estimate_percent
    /\ st.last_estimate_print_time = st.currentTime
    /\ st.gas_deadzone_out < 93
    /\ st.best_estimate_percent < st.gas_deadzone_out

\* C30: an iteration applies auto-adjust (gas_auto_adjust_applied = 1)
\* exactly when auto-adjust is on and the iteration lowered
\* best_estimate_percent to a value below gas_deadzone_out and not below
\* auto_gas_deadzone_minimum; gas_deadzone_out is then the new best
\* estimate and gasFullMin is recomputed from it. In every other iteration,
\* one that lowered the best estimate below the minimum included,
\* gas_deadzone_out and gasFullMin are unchanged.
C30_AutoAdjustApplied ==
    [][ LoopIteration =>
          IF /\ st.auto_gas_deadzone_enabled # 0
             /\ st'.best_estimate_percent < st.best_estimate_percent
             /\ st'.best_estimate_percent < st.gas_deadzone_out
             /\ st'.best_estimate_percent >= st.auto_gas_deadzone_minimum
          THEN /\ st'.gas_auto_adjust_applied = 1
               /\ st'.gas_deadzone_out = st'.best_estimate_percent
               /\ st'.gasFullMin =
                    (st.axisMax * st'.best_estimate_percent) \div 100
          ELSE /\ st'.gas_auto_adjust_applied = 0
               /\ st'.gas_deadzone_out = st.gas_deadzone_out
               /\ st'.gasFullMin = st.gasFullMin ]_vars

\* After one applied adjustment the estimate has fallen below the minimum:
\* gas_deadzone_out stays at the adjusted value, above the minimum.
C30_Witness ==
    /\ Emitted(events, "alert:estimate")
    /\ st.auto_gas_deadzone_enabled # 0
    /\ st.best_estimate_percent < st.auto_gas_deadzone_minimum
    /\ st.gas_auto_adjust_applied = 0
    /\ st.gas_deadzone_out > st.auto_gas_deadzone_minimum
    /\ st.gas_deadzone_out < 93
    /\ st.gasFullMin = (st.axisMax * st.gas_deadzone_out) \div 100

\* C31: in every state of the loop, so at the start of every iteration,
\* after startup, after every auto-adjust and after every reconnect,
\* gasFullMin is axisMax * gas_deadzone_out / 100 and gasIdleMax is
\* axisMax * gas_deadzone_in / 100 in integer division, with axisMax the
\* range chosen by the flags; and a reconnect leaves gas_deadzone_out, an
\* auto-adjusted one included, and gas_deadzone_in as they are.
C31_ThresholdsFollowConfiguration ==
    /\ [](/\ st.axisMax = (IF (st.joy_Flags \div 256) % 2 = 1
                           THEN 1023 ELSE 65535)
          /\ st.gasFullMin = (st.axisMax * st.gas_deadzone_out) \div 100
          /\ st.gasIdleMax = (st.axisMax * st.gas_deadzone_in) \div 100)
    /\ [][ Rediscovery =>
             /\ st'.gas_deadzone_out = st.gas_deadzone_out
             /\ st'.gas_deadzone_in = st.gas_deadzone_in ]_vars

\* The state after a reconnect in a run whose gas_deadzone_out was lowered
\* by auto-adjust before the disconnect.
C31_Witness ==
    /\ st.controller_reconnected = 1
    /\ pc = "loop"
    /\ st.auto_gas_deadzone_enabled # 0
    /\ st.gas_deadzone_out < 93
    /\ st.best_estimate_percent = 100
    /\ st.gasFullMin = (st.axisMax * st.gas_deadzone_out) \div 100

\* A step that processes a sample with clutch monitoring on.
ClutchTick == Emitted(events', "read_ok") /\ st.monitor_clutch # 0

\* The sample of this step continues a streak: gas in the idle band, clutch
\* pressed, and the clutch within axisMargin of the sample before.
ContinuesStreak ==
    /\ st'.gasValue <= st.gasIdleMax
    /\ st'.clutchValue > 0
    /\ st'.clutchValue - st.lastClutchValue <= st.axisMargin
    /\ st.lastClutchValue - st'.clutchValue <= st.axisMargin

\* C32: a sample that continues a streak adds one to repeatingClutchCount,
\* and the clutch alert fires exactly on the sample that brings it to
\* clutch_repeat_required, whatever the time since the alert before, and
\* sets it back to 0, so that an unbroken streak alerts on every
\* clutch_repeat_required-th sample; a sample that does not continue the
\* streak sets the count to 0 without an alert.
C32_ClutchAlertPeriod ==
    [][ ClutchTick =>
          IF ContinuesStreak
          THEN IF st.repeatingClutchCount + 1 = st.clutch_repeat_required
               THEN /\ Emitted(events', "alert:Rudder")
                    /\ st'.clutch_alert_triggered = 1
                    /\ st'.repeatingClutchCount = 0
               ELSE /\ ~Emitted(events', "alert:Rudder")
                    /\ st'.clutch_alert_triggered = 0
                    /\ st'.repeatingClutchCount = st.repeatingClutchCount + 1
          ELSE /\ ~Emitted(events', "alert:Rudder")
               /\ st'.clutch_alert_triggered = 0
               /\ st'.repeatingClutchCount = 0 ]_vars

\* A clutch alert on sample 3 * clutch_repeat_required, the sample on which
\* a streak unbroken from the first sample on raises its third alert.
C32_Witness ==
    /\ Emitted(events, "alert:Rudder")
    /\ st.clutch_alert_triggered = 1
    /\ st.repeatingClutchCount = 0
    /\ st.iLoop = 3 * st.clutch_repeat_required
    /\ obs.readAttempts = st.iLoop
    /\ st.last_disconnect_time_ms = 0

\* The calls of a step start with the sequence prefix.
StartsWith(seq, prefix) ==
    /\ Len(seq) >= Len(prefix)
    /\ \A i \in 1 .. Len(prefix) : seq[i] = prefix[i]

\* C33: the 'disconnected' notification is made once, by the iteration
\* whose read failed, on entering the reconnect loop; every round of the
\* loop then sleeps the fixed 60 seconds before its rediscovery attempt, a
\* failed attempt is followed by one 'not found' notification and leaves
\* the state and the shared memory alone, and the successful attempt by
\* exactly one 'found' notification, after which the main loop resumes; no
\* round reads the device, and these notifications are made nowhere else.
C33_ReconnectEpisodeOrder ==
    [][ /\ (pc = "loop" /\ pc' = "reconnect") =>
             /\ StartsWith(events', <<"read_fail", "alert:disconnected">>)
             /\ Occurrences(events', "alert:disconnected") = 1
             /\ DetectorState(st') = DetectorState(st)
             /\ clock' = clock
        /\ pc = "reconnect" =>
             /\ clock' = clock + ReconnectSleepMs
             /\ ~Emitted(events', "read_ok") /\ ~Emitted(events', "read_fail")
             /\ ~Emitted(events', "alert:disconnected")
             /\ \/ /\ events' = <<"sleep60", "find_fail", "alert:not_found">>
                   /\ pc' = "reconnect"
                   /\ st' = st /\ shared' = shared
                \/ /\ StartsWith(events',
                                 <<"sleep60", "find_ok", "alert:found">>)
                   /\ Occurrences(events', "alert:found") = 1
                   /\ ~Emitted(events', "alert:not_found")
                   /\ pc' = "loop"
        /\ Emitted(events', "alert:disconnected") =>
             pc = "loop" /\ pc' = "reconnect"
        /\ (Emitted(events', "alert:found")
            \/ Emitted(events', "alert:not_found")
            \/ Emitted(events', "sleep60")) => pc = "reconnect" ]_vars

\* The end of an episode with one failed attempt: the device was found two
\* backoff sleeps after the disconnect.
C33_Witness ==
    /\ StartsWith(events, <<"sleep60", "find_ok", "alert:found">>)
    /\ pc = "loop"
    /\ st.controller_reconnected = 1
    /\ st.last_reconnect_time_ms - st.last_disconnect_time_ms
          = 2 * ReconnectSleepMs

\* The run without an iteration limit has been followed as far as the model
\* goes.
FollowedToTheEnd == st.iterations = 0 /\ obs.readAttempts >= MaxIterations

\* C34: a run waiting in the reconnect loop returns to the main loop,
\* provided the rediscovery succeeds in the end, and then makes its next
\* read or, the iteration limit reached, returns from main; the reconnect
\* loop is left only by a successful rediscovery and only into the main
\* loop, also when the iteration that failed was the last one allowed.
C34_ReconnectLiveness ==
    /\ (pc = "reconnect") ~> (pc = "loop")
    /\ (pc = "loop" /\ Emitted(events, "find_ok")) ~>
          \/ Emitted(events, "read_ok") \/ Emitted(events, "read_fail")
          \/ pc = "done"
          \/ FollowedToTheEnd
    /\ [][ pc = "reconnect" =>
             \/ pc' = "reconnect" /\ ~Emitted(events', "find_ok")
             \/ pc' = "loop" /\ Emitted(events', "find_ok") ]_vars
    /\ [][ pc' = "done" => pc = "loop" ]_vars

\* The device was found during the last iteration the limit allows: the run
\* is back in the main loop, not ended.
C34_Witness ==
    /\ pc = "loop"
    /\ Emitted(events, "find_ok")
    /\ st.iterations > 1
    /\ st.iLoop = st.iterations
    /\ obs.readAttempts = st.iterations

\* 1 if the event was made by the step, 0 if not.
FlagOf(happened) == IF happened THEN 1 ELSE 0

\* C35: in every frame published, gas_alert_triggered, clutch_alert_triggered,
\* gas_estimate_decreased and gas_auto_adjust_applied are 1 exactly when the
\* iteration that published the frame raised the drift alert, raised the
\* clutch alert, notified a lowered estimate and changed gas_deadzone_out;
\* so a flag of one frame is 0 in the next unless its event happens again,
\* and the frames of a disconnect and of a reconnect carry all four as 0.
C35_OneShotFlagsPerTick ==
    [][ Emitted(events', "publish") =>
          /\ shared'.gas_alert_triggered =
                FlagOf(Emitted(events', "alert:Gas"))
          /\ shared'.clutch_alert_triggered =
                FlagOf(Emitted(events', "alert:Rudder"))
          /\ shared'.gas_estimate_decreased =
                FlagOf(Emitted(events', "alert:estimate"))
          /\ shared'.gas_auto_adjust_applied =
                FlagOf(st'.gas_deadzone_out # st.gas_deadzone_out)
          /\ ~Emitted(events', "read_ok") =>
                /\ shared'.gas_alert_triggered = 0
                /\ shared'.clutch_alert_triggered = 0
                /\ shared'.gas_estimate_decreased = 0
                /\ shared'.gas_auto_adjust_applied = 0 ]_vars

\* The frame of the sample after a drift alert: the alert time it carries
\* is the time of the sample before, and gas_alert_triggered is 0 again.
C35_Witness ==
    /\ Emitted(events, "publish") /\ Emitted(events, "read_ok")
    /\ shared.telemetry_sequence = st.telemetry_sequence
    /\ shared.lastGasAlertTime > 0
    /\ shared.currentTime - shared.lastGasAlertTime = st.sleep_Time
    /\ shared.gas_alert_triggered = 0
    /\ shared.isRacing

\* C36: the frame in the shared memory that carries controller_reconnected
\* = 1 shows the detector state after the reset: isRacing false,
\* peakGasInWindow, repeatingClutchCount and lastClutchValue 0 and
\* best_estimate_percent 100.
C36_ReconnectFrameIsReset ==
    shared.controller_reconnected = 1 =>
        /\ shared.isRacing = FALSE
        /\ shared.peakGasInWindow = 0
        /\ shared.repeatingClutchCount = 0
        /\ shared.lastClutchValue = 0
        /\ shared.best_estimate_percent = 100

\* C37: while no drift alert has fired in the run, a processed sample that
\* leaves the tracker Racing with gasValue < gasFullMin, more than
\* gas_window after lastFullThrottleTime and with a window peak above
\* gas_min_usage_percent raises the drift alert, whatever the value of the
\* tick counter.
C37_FirstAlertNotHeldBack ==
    [][ ( /\ GasTick
          /\ obs.lastDriftAlertAt = -1
          /\ st'.isRacing
          /\ st'.gasValue < st.gasFullMin
          /\ st'.currentTime - st'.lastFullThrottleTime > st.gas_window_ms
          /\ (st'.peakGasInWindow * 100) \div st.axisMax
                > st.gas_min_usage_percent )
        => Emitted(events', "alert:Gas") ]_vars

(***************************************************************************)
(* The drift detector on an axis whose maximum is 0.                       *)
(*                                                                         *)
(* main() sets axisMax to 1023 or 65535 (line 1288, and again on every     *)
(* rediscovery), so no run has axisMax = 0. The runs below start the main  *)
(* loop from the state main() would have built had the axis maximum been   *)
(* 0, next to the same runs on the 0..1023 axis: both thresholds are       *)
(* axisMax * percent / 100, hence 0 with it. The estimator is off in these *)
(* runs: its division (line 1702) is reached by every sample above         *)
(* gasIdleMax and has no test of axisMax before it.                        *)
(***************************************************************************)
\* --monitor-gas --joystick 0 --gas-window 1 --gas-cooldown 1
\* --gas-timeout 3 --sleep 2000 --iterations N, with and without
\* --no-axis-normalization
ZeroAxisCommandLines ==
    { [DefaultOptions EXCEPT
          !.monitor_gas = 1, !.joy_ID = 0, !.j = 1,
          !.gas_window = 1, !.gas_cooldown = 1, !.gas_timeout = 3,
          !.sleep_Time = 2000, !.axis_normalization_enabled = n,
          !.iterations = MaxIterations] : n \in {0, 1} }

\* The state at loop entry with the axis maximum a: the thresholds are
\* derived from it as at lines 1360-1361.
StartupStateOnAxis(o, now, a) ==
    [StartupState(o, now) EXCEPT
        !.axisMax = a,
        !.gasIdleMax = ThresholdOf(a, o.gas_deadzone_in),
        !.gasFullMin = ThresholdOf(a, o.gas_deadzone_out)]

InitZeroAxis ==
    \E o \in ZeroAxisCommandLines, t0 \in StartTimes, a \in {0, AxisMaxRaw} :
        /\ ParseCommandLineAccepts(o)
        /\ st = StartupStateOnAxis(o, t0, a)
        /\ shared = ZeroFrame
        /\ clock = t0
        /\ pc = "loop"
        /\ events = << >>
        /\ obs = [lastDriftAlertAt |-> -1, driftAlerts |-> 0,
                  samplesSinceAttach |-> 0, readAttempts |-> 0,
                  windowMax |-> 0, estimateMax |-> 0]
        /\ view = [mem |-> ZeroFrame, before |-> ZeroFrame,
                   snapshot |-> ZeroFrame]
        /\ inst = << >>
        /\ mutex = {}
        /\ probe = << >>

\* The raw gas readings offered: any of four values where the reading is
\* used as it is, and those within 0..axisMax where it is mirrored.
ZeroAxisInputs(s) ==
    { r \in {0, 214, 500, 1023} :
        s.axis_normalization_enabled # 0 => r <= s.axisMax }

ZeroAxisTick == \E rawGas \in ZeroAxisInputs(st) : TickOn(rawGas, 0)

NextZeroAxis ==
    \/ ZeroAxisTick
    \/ Finish

SpecZeroAxis == InitZeroAxis /\ [][NextZeroAxis]_vars

\* The state the drift check of this step starts from: the sample taken
\* and the activity detection done.
DriftInput == GasActivity(ClutchMonitor(
                  Sample(ResetOneShots(LoopEnter(st)),
                         st'.rawGas, st'.rawClutch, st'.currentTime)))

\* This step executes the division of line 1646.
DriftDivides ==
    /\ DriftInput.isRacing
    /\ DriftInput.gasValue < DriftInput.gasFullMin
    /\ DriftEvaluationDue(DriftInput)

C38_DivisionNeverReached == [][GasTick => ~DriftDivides]_vars

\* Every run of the program has axisMax 1023 or 65535.
C38_AxisMaxNeverZero == st.axisMax \in {AxisMaxRaw, AxisMaxStd}

\* A frame has been published to the shared memory.
FramePublished == shared.telemetry_sequence > 0

\* C39: every published frame has its normalised pedal values within
\* 0..axisMax, its physical and logical percentages and the peak of the
\* estimation window within 0..100, and a best estimate that is either 100
\* or at least gas_min_usage_percent and at most 99.
C39_FrameValueRanges ==
    FramePublished =>
        /\ shared.gasValue \in 0 .. shared.axisMax
        /\ shared.clutchValue \in 0 .. shared.axisMax
        /\ shared.gas_physical_pct \in 0 .. 100
        /\ shared.clutch_physical_pct \in 0 .. 100
        /\ shared.gas_logical_pct \in 0 .. 100
        /\ shared.clutch_logical_pct \in 0 .. 100
        /\ shared.estimate_window_peak_percent \in 0 .. 100
        /\ \/ shared.best_estimate_percent = 100
           \/ shared.best_estimate_percent
                 \in shared.gas_min_usage_percent .. 99

\* A frame of a mirrored axis with the gas pedal fully pressed, a lowered
\* best estimate and an open estimation window.
C39_Witness ==
    /\ FramePublished
    /\ shared.axis_normalization_enabled # 0
    /\ shared.gasValue = shared.axisMax
    /\ shared.gas_physical_pct = 100
    /\ shared.gas_logical_pct = 100
    /\ shared.estimate_window_peak_percent = 100
    /\ shared.best_estimate_percent < 100

\* Refuted by the runs: frames of an axis read as it is (no mirroring), with
\* both pedals pressed, are published too.
C39_NoUnmirroredFrame ==
    ~ ( /\ FramePublished
        /\ shared.axis_normalization_enabled = 0
        /\ shared.gasValue > 0
        /\ shared.clutchValue > 0
        /\ shared.gas_logical_pct = 100
        /\ shared.clutch_physical_pct > 0 )

====
